---- MODULE Spec2Model ----
(***************************************************************************)
(* Fund valuation estimation of zwSirius/baiye-fund.                       *)
(*                                                                         *)
(* The repository holds two server programs with the same job:             *)
(*   src/main.py          _process_single_fund_estimate, get_batch_estimate *)
(*   src/backend/main.py  FundController.batch_estimate over CacheService   *)
(* `app` says which of the two is running; the upstream providers (the      *)
(* official feed, the NAV history, the ETF/LOF spot list, the daily NAV     *)
(* list, the holdings disclosure and the stock quotes) are `up`.            *)
(*                                                                         *)
(* Numbers.  A NAV is an integer count of 1/10000 (1.0234 is 10234); a      *)
(* percentage is an integer count of 1/100 of a percent (0.95% is 95); a    *)
(* holding's weight is an integer percent.  "{:.2f}" and "{:.4f}" round a   *)
(* quotient to those units (Fmt); an exact tie is rounded to even.          *)
(* A date string 'YYYY-MM-DD' is the day number, "" is 0: the order of the  *)
(* strings is the order of the numbers.                                    *)
(* A text field (gsz, gszzl, dwjz) is [num, v]: a numeral of value v, or a  *)
(* text that float() rejects (empty, "--").                                *)
(***************************************************************************)
EXTENDS Integers, Sequences, FiniteSets, TLC

VARIABLES app, clk, up, cache, lru, holdings, req, out

vars == <<app, clk, up, cache, lru, holdings, req, out>>

----------------------------------------------------------------------------
(* Bounds of the model *)

\* the longest list of fund ids of one batch request
MaxBatch == 2

----------------------------------------------------------------------------
(* Program constants *)

DAY == 86400
CACHE_TTL == 300
HOLDINGS_TTL == 86400
SPOT_TTL == 60
DAILY_TTL == 120
\* 0.95, the damping of the holdings estimate, as 19 / 20
DAMPING_NUM == 19
DAMPING_DEN == 20

Funds == {"F1", "F2"}
StockA == "600001"
StockB == "600002"
Stocks == {StockA, StockB}

----------------------------------------------------------------------------
(* Arithmetic *)

\* n / d rounded to the nearest integer, ties to even (d > 0)
RoundDiv(n, d) ==
    LET q == n \div d
        r == n - q * d
    IN  IF 2 * r < d THEN q
        ELSE IF 2 * r > d THEN q + 1
        ELSE IF q % 2 = 0 THEN q ELSE q + 1

\* a numeral, and a text float() rejects
NumT(v) == [num |-> TRUE, v |-> v]
BadT == [num |-> FALSE, v |-> 0]

\* "{:.2f}".format(x) and "{:.4f}".format(x) of the quotient n / d, where n / d
\* is already counted in the unit of the result
Fmt(n, d) == NumT(RoundDiv(n, d))

\* the same of k + n / d, for an integer k
FmtSum(k, n, d) ==
    LET q == n \div d
        r == n - q * d
    IN  NumT(IF 2 * r < d THEN k + q
             ELSE IF 2 * r > d THEN k + q + 1
             ELSE IF (k + q) % 2 = 0 THEN k + q ELSE k + q + 1)

\* ((cur - prev) / prev) * 100, formatted "{:.2f}"
PctChange(cur, prev) == Fmt((cur - prev) * 10000, prev)

----------------------------------------------------------------------------
(* The clock *)

\* the instants the clock passes through, in seconds; day 7 is a Monday
Instants ==
    << 7 * DAY + 9 * 3600 + 10 * 60,
       7 * DAY + 14 * 3600 + 58 * 60,
       7 * DAY + 15 * 3600 + 1 * 60,
       12 * DAY + 10 * 3600 >>

Now(k) == Instants[k]
DayOf(t) == t \div DAY
TimeOfDay(t) == t % DAY
Weekday(t) == DayOf(t) % 7
\* datetime.time(h, m) as seconds of the day
Clock(h, m) == h * 3600 + m * 60

_get_current_china_date_str(t) == DayOf(t)

_get_time_phase(t) ==
    IF Weekday(t) >= 5 THEN "WEEKEND"
    ELSE IF TimeOfDay(t) < Clock(9, 30) THEN "PRE_MARKET"
    ELSE IF TimeOfDay(t) <= Clock(15, 0) THEN "MARKET"
    ELSE "POST_MARKET"

get_time_phase(t) ==
    IF Weekday(t) >= 5 THEN "WEEKEND"
    ELSE IF TimeOfDay(t) < Clock(9, 15) THEN "PRE_MARKET"
    ELSE IF TimeOfDay(t) >= Clock(11, 30) /\ TimeOfDay(t) < Clock(13, 0) THEN "LUNCH_BREAK"
    ELSE IF TimeOfDay(t) <= Clock(15, 0) THEN "MARKET"
    ELSE "POST_MARKET"

----------------------------------------------------------------------------
(* The upstream providers *)

\* the official feed's answer for one fund: unavailable (timeout, bad status,
\* no jsonpgz wrapper, bad JSON), or the record it carries
FeedDown == [ok |-> FALSE, gsz |-> BadT, gszzl |-> BadT, dwjz |-> BadT, jzrq |-> 0]
FeedEst == [ok |-> TRUE, gsz |-> NumT(10500), gszzl |-> NumT(294), dwjz |-> NumT(10200), jzrq |-> 4]
FeedFlat == [ok |-> TRUE, gsz |-> NumT(10200), gszzl |-> NumT(0), dwjz |-> NumT(10200), jzrq |-> 4]
FeedBlank == [ok |-> TRUE, gsz |-> BadT, gszzl |-> BadT, dwjz |-> NumT(10200), jzrq |-> 4]
Feeds == {FeedDown, FeedEst, FeedFlat, FeedBlank}

\* the confirmed NAV series, oldest first; day 7 is the Monday of the clock
Hists ==
    { << >>,
      << [date |-> 3, nav |-> 10000], [date |-> 4, nav |-> 10200] >>,
      << [date |-> 4, nav |-> 10000], [date |-> 7, nav |-> 10200] >>,
      << [date |-> 7, nav |-> 10000] >> }

\* the fund's row of the ETF/LOF spot lists, if it is traded
Etfs ==
    { [listed |-> FALSE, price |-> 0, change |-> 0, type |-> "ETF"],
      [listed |-> TRUE, price |-> 11000, change |-> 150, type |-> "ETF"],
      [listed |-> TRUE, price |-> 0, change |-> 0, type |-> "LOF"] }

\* the fund's row of the daily NAV list
Dailies ==
    { [listed |-> FALSE, nav |-> 0, change |-> 0],
      [listed |-> TRUE, nav |-> 10300, change |-> 98] }

\* the holdings the disclosure yields
Holds ==
    { << >>,
      << [code |-> StockA, percent |-> 40], [code |-> StockB, percent |-> 20] >>,
      << [code |-> StockB, percent |-> 20] >> }

NotListed == [listed |-> FALSE, price |-> 0, change |-> 0, type |-> "ETF"]
NoDaily == [listed |-> FALSE, nav |-> 0, change |-> 0]
FullHold == << [code |-> StockA, percent |-> 40], [code |-> StockB, percent |-> 20] >>

\* the first fund: every feed, history, spot row and daily row with the full
\* holdings, and every holdings list with no spot row and no daily row
TierProfiles == [feed : Feeds, hist : Hists, etf : Etfs, daily : Dailies, hold : {FullHold}]
HoldProfiles ==
    [feed : {FeedDown, FeedFlat},
     hist : {<< >>, << [date |-> 3, nav |-> 10000], [date |-> 4, nav |-> 10200] >>},
     etf : {NotListed}, daily : {NoDaily}, hold : Holds]

\* the second fund of a batch: its feed is down, its history and holdings are there
Profile2 ==
    [feed |-> FeedDown,
     hist |-> << [date |-> 3, nav |-> 10000], [date |-> 4, nav |-> 10200] >>,
     etf |-> NotListed, daily |-> NoDaily, hold |-> FullHold]

\* a stock's row of the quote provider: none, a change, or a '-' placeholder
NoQuote == [st |-> "absent", chg |-> 0]
QuoteMaps ==
    { [s \in Stocks |-> IF s = StockA THEN [st |-> "num", chg |-> 200] ELSE [st |-> "num", chg |-> -100]],
      [s \in Stocks |-> IF s = StockA THEN [st |-> "num", chg |-> 200] ELSE NoQuote],
      [s \in Stocks |-> NoQuote] }

AllQuoted == [s \in Stocks |-> IF s = StockA THEN [st |-> "num", chg |-> 200] ELSE [st |-> "num", chg |-> -100]]

World(p1, p2, q) == [fund |-> [f \in Funds |-> IF f = "F1" THEN p1 ELSE p2], quote |-> q]

Worlds ==
    { World(p1, Profile2, AllQuoted) : p1 \in TierProfiles }
    \cup { World(p1, Profile2, q) : p1 \in HoldProfiles, q \in QuoteMaps }

----------------------------------------------------------------------------
(* Snapshots *)

\* the fields of a result record; `internal` are the underscore keys it carries
Snapshot(code, name, gsz, gszzl, dwjz, jzrq, source, gztime) ==
    [fundcode |-> code, name |-> name, gsz |-> gsz, gszzl |-> gszzl, dwjz |-> dwjz,
     jzrq |-> jzrq, source |-> source, gztime |-> gztime,
     internal |-> {}, last_nav |-> 0]

\* data.update(fetched)
Update(data, fd) ==
    [data EXCEPT !.name = "fund", !.gsz = fd.gsz, !.gszzl = fd.gszzl,
                 !.dwjz = fd.dwjz, !.jzrq = fd.jzrq, !.gztime = "feed"]

\* float(x) raises on a text that is no numeral
Raises(x) == ~x.num

\* d[k] = v and del d[k] on a dict (a function whose domain is its keys)
Put(d, k, v) == [x \in DOMAIN d \cup {k} |-> IF x = k THEN v ELSE d[x]]
Del(d, k) == [x \in DOMAIN d \ {k} |-> d[x]]
Empty == [x \in {} |-> 0]

Last(s) == s[Len(s)]
Prev(s) == s[Len(s) - 1]

\* the stock codes of a holdings list
RECURSIVE CodesOf(_)
CodesOf(hs) == IF hs = << >> THEN {} ELSE {Head(hs).code} \cup CodesOf(Tail(hs))

----------------------------------------------------------------------------
(* src/main.py *)

\* DataCache.holdings: code -> {data, time}, a dict
DataCache_get_holdings(hc, code, t) ==
    IF code \in DOMAIN hc /\ t - hc[code].time < HOLDINGS_TTL
    THEN [hit |-> TRUE, data |-> hc[code].data]
    ELSE [hit |-> FALSE, data |-> << >>]

DataCache_set_holdings(hc, code, data, t) == Put(hc, code, [data |-> data, time |-> t])

\* the cached holdings, or the fetched ones, which are then cached
_get_fund_holdings_with_cache(hc, code, t, u) ==
    LET cached == DataCache_get_holdings(hc, code, t)
    IN  IF cached.hit
        THEN [data |-> cached.data, hc |-> hc]
        ELSE [data |-> u.fund[code].hold,
              hc |-> DataCache_set_holdings(hc, code, u.fund[code].hold, t)]

\* code -> change for the rows the provider answers with; a change that is no
\* number counts as 0.0
_get_stock_realtime_quotes(u, codes) ==
    [s \in Stocks |->
        IF s \in codes /\ u.quote[s].st # "absent"
        THEN [has |-> TRUE, chg |-> IF u.quote[s].st = "num" THEN u.quote[s].chg ELSE 0]
        ELSE [has |-> FALSE, chg |-> 0]]

\* quotes.get(code, 0)
QuoteOrZero(quotes, code) == IF quotes[code].has THEN quotes[code].chg ELSE 0

\* total_weighted_change and total_weight over all holdings
RECURSIVE MainWeightedChange(_, _)
MainWeightedChange(hs, quotes) ==
    IF hs = << >> THEN 0
    ELSE QuoteOrZero(quotes, Head(hs).code) * Head(hs).percent + MainWeightedChange(Tail(hs), quotes)

RECURSIVE MainTotalWeight(_)
MainTotalWeight(hs) == IF hs = << >> THEN 0 ELSE Head(hs).percent + MainTotalWeight(Tail(hs))

\* est_change = total_weighted_change / 100.0, as "{:.2f}"
MainEstChange(twc) == Fmt(twc, 100)

\* est_nav = last_nav * (1 + est_change / 100.0), as "{:.4f}"
MainEstNav(last_nav, twc) == FmtSum(last_nav, last_nav * twc, 1000000)

\* get_calc_result of one fund, given its holdings and the quotes
MainCalc(hs, quotes, last_nav) ==
    IF hs = << >> \/ MainTotalWeight(hs) = 0
    THEN [some |-> FALSE, gsz |-> NumT(0), gszzl |-> NumT(0)]
    ELSE [some |-> TRUE,
          gsz |-> MainEstNav(last_nav, MainWeightedChange(hs, quotes)),
          gszzl |-> MainEstChange(MainWeightedChange(hs, quotes))]

\* the default record, updated by the feed's
MainFetched(code, u) ==
    LET d == Snapshot(code, "", NumT(0), NumT(0), NumT(0), 0, "official", "")
    IN  IF u.fund[code].feed.ok THEN Update(d, u.fund[code].feed) ELSE d

\* dwjz and jzrq from the latest confirmed NAV
MainWithHistory(data, hist) ==
    IF hist # << >>
    THEN [data EXCEPT !.dwjz = NumT(Last(hist).nav), !.jzrq = Last(hist).date]
    ELSE data

\* last_confirmed_nav: the history's, else the feed's if positive, else 1.0
MainLastNav(data, hist) ==
    IF hist # << >> THEN Last(hist).nav
    ELSE IF data.dwjz.v > 0 THEN data.dwjz.v
    ELSE 10000

\* the PRE_MARKET / WEEKEND branch
MainStatic(data, hist, last_nav) ==
    LET d1 == [data EXCEPT !.gsz = data.dwjz]
        d2 == IF Len(hist) >= 2
              THEN IF Prev(hist).nav > 0
                   THEN [d1 EXCEPT !.gszzl = PctChange(last_nav, Prev(hist).nav)]
                   ELSE d1
              ELSE [d1 EXCEPT !.gszzl = NumT(0)]
    IN  [d2 EXCEPT !.source = "real_history"]

\* the holdings estimate, or the last NAV with no change
MainEstimated(data, calc, last_nav, tag) ==
    IF calc.some
    THEN [data EXCEPT !.gsz = calc.gsz, !.gszzl = calc.gszzl, !.source = tag]
    ELSE [data EXCEPT !.gsz = NumT(last_nav), !.gszzl = NumT(0)]

\* prev_nav of the POST_MARKET branch
MainPrevNav(hist, today) ==
    IF hist = << >> THEN 0
    ELSE IF Last(hist).date = today
         THEN IF Len(hist) >= 2 THEN Prev(hist).nav ELSE 0
         ELSE Last(hist).nav

\* the confirmed NAV of today against the one before it
MainUpdated(data, prev_nav) ==
    [data EXCEPT !.gsz = NumT(data.dwjz.v),
                 !.gszzl = PctChange(data.dwjz.v, prev_nav),
                 !.source = "real_updated"]

\* the result of one fund: [raised, data, hc], and whether get_calc_result ran
_process_single_fund_estimate(code, t, hc, u) ==
    LET phase == _get_time_phase(t)
        today == _get_current_china_date_str(t)
        hist == u.fund[code].hist
        fetched == MainFetched(code, u)
        data == MainWithHistory(fetched, hist)
        last_nav == MainLastNav(fetched, hist)
        hold == _get_fund_holdings_with_cache(hc, code, t, u)
        quotes == _get_stock_realtime_quotes(u, CodesOf(hold.data))
        calc == MainCalc(hold.data, quotes, last_nav)
        fail == [raised |-> TRUE, data |-> data, hc |-> hc, calc |-> FALSE]
    IN  IF hist = << >> /\ Raises(fetched.dwjz) THEN fail
        ELSE IF phase \in {"PRE_MARKET", "WEEKEND"}
        THEN [raised |-> FALSE, data |-> MainStatic(data, hist, last_nav), hc |-> hc,
              calc |-> FALSE]
        ELSE IF phase = "MARKET"
        THEN IF Raises(data.gsz) THEN fail
             ELSE IF data.gsz.v > 0 /\ data.gsz.v # last_nav
             THEN [raised |-> FALSE, data |-> data, hc |-> hc, calc |-> FALSE]
             ELSE [raised |-> FALSE, data |-> MainEstimated(data, calc, last_nav, "holdings_calc"),
                   hc |-> hold.hc, calc |-> TRUE]
        ELSE IF data.jzrq = today
        THEN [raised |-> FALSE,
              data |-> IF MainPrevNav(hist, today) > 0 /\ data.dwjz.v > 0
                       THEN MainUpdated(data, MainPrevNav(hist, today))
                       ELSE data,
              hc |-> hc, calc |-> FALSE]
        ELSE [raised |-> FALSE, data |-> MainEstimated(data, calc, last_nav, "holdings_close_est"),
              hc |-> hold.hc, calc |-> TRUE]

\* stages 1 to 3 of the batch for one fund: [raised, data, last_nav, calc]
MainBatchEntry(code, t, u) ==
    LET phase == _get_time_phase(t)
        today == _get_current_china_date_str(t)
        hist == u.fund[code].hist
        fetched == MainFetched(code, u)
        data == MainWithHistory(fetched, hist)
        last_nav == MainLastNav(fetched, hist)
        prev == MainPrevNav(hist, today)
        fail == [raised |-> TRUE, data |-> data, last_nav |-> last_nav, calc |-> FALSE]
    IN  IF hist = << >> /\ Raises(fetched.dwjz) THEN fail
        ELSE IF phase \in {"PRE_MARKET", "WEEKEND"}
        THEN [raised |-> FALSE, data |-> MainStatic(data, hist, last_nav),
              last_nav |-> last_nav, calc |-> FALSE]
        ELSE IF Raises(data.gsz) THEN fail
        ELSE IF phase = "POST_MARKET" /\ data.jzrq = today /\ prev > 0
        THEN [raised |-> FALSE, data |-> MainUpdated(data, prev),
              last_nav |-> last_nav, calc |-> FALSE]
        ELSE [raised |-> FALSE, data |-> data, last_nav |-> last_nav,
              calc |-> ~(data.gsz.v > 0 /\ data.gsz.v # last_nav)]

\* the holdings cache after stage 4 has asked for the holdings of calc_needed_codes
RECURSIVE MainBatchHoldings(_, _, _, _)
MainBatchHoldings(codes, hc, t, u) ==
    IF codes = << >> THEN hc
    ELSE MainBatchHoldings(Tail(codes),
            IF MainBatchEntry(Head(codes), t, u).calc
            THEN _get_fund_holdings_with_cache(hc, Head(codes), t, u).hc
            ELSE hc,
            t, u)

\* one fund's record of final_list
MainBatchResult(code, t, hc, u) ==
    LET e == MainBatchEntry(code, t, u)
        hs == _get_fund_holdings_with_cache(hc, code, t, u).data
        quotes == _get_stock_realtime_quotes(u, CodesOf(hs))
    IN  IF e.calc
        THEN MainEstimated(e.data, MainCalc(hs, quotes, e.last_nav), e.last_nav, "holdings_calc_batch")
        ELSE e.data

SeqFilter(s, S) == SelectSeq(s, LAMBDA x : x \in S)
Range(s) == {s[i] : i \in DOMAIN s}

\* calc_needed_codes
MainCalcNeeded(codes, t, u) == SeqFilter(codes, {f \in Range(codes) : MainBatchEntry(f, t, u).calc})

\* the batch: [raised, list, hc], and calc_needed_codes
get_batch_estimate(codes, t, hc, u) ==
    IF \E i \in 1..Len(codes) : MainBatchEntry(codes[i], t, u).raised
    THEN [raised |-> TRUE, list |-> << >>, hc |-> hc, calc |-> << >>]
    ELSE [raised |-> FALSE,
          list |-> [i \in 1..Len(codes) |-> MainBatchResult(codes[i], t, hc, u)],
          hc |-> MainBatchHoldings(codes, hc, t, u),
          calc |-> MainCalcNeeded(codes, t, u)]

----------------------------------------------------------------------------
(* src/backend/main.py *)

\* a get for which a ttl of 0 is an ordinary ttl
CacheService_get_strict(c, key, ttl, t) ==
    IF key \in DOMAIN c
    THEN IF t - c[key].time < ttl
         THEN [hit |-> TRUE, cache |-> c]
         ELSE [hit |-> FALSE, cache |-> Del(c, key)]
    ELSE [hit |-> FALSE, cache |-> c]

\* a get that empties the store when it finds its entry expired
CacheService_get_clear(c, key, ttl, t) ==
    IF key \in DOMAIN c
    THEN IF ttl = 0 \/ t - c[key].time < ttl
         THEN [hit |-> TRUE, cache |-> c]
         ELSE [hit |-> FALSE, cache |-> Empty]
    ELSE [hit |-> FALSE, cache |-> c]

\* CacheService: key -> {data, time}, a dict
\* get(key, ttl): ttl = 0 never expires; an expired read deletes the entry
CacheService_get(c, key, ttl, t) ==
    IF key \in DOMAIN c
    THEN IF ttl = 0 \/ t - c[key].time < ttl
         THEN [hit |-> TRUE, cache |-> c]
         ELSE [hit |-> FALSE, cache |-> Del(c, key)]
    ELSE [hit |-> FALSE, cache |-> c]

\* a set that keeps the insertion time of the entry it overwrites
CacheService_set_keep(c, key, data, t) == Put(c, key, [data |-> data, time |-> IF key \in DOMAIN c THEN c[key].time ELSE t])

CacheService_set(c, key, data, t) == Put(c, key, [data |-> data, time |-> t])

\* an mget that reads the first of its keys only
CacheService_mget_head(c, keys, ttl, t) ==
    IF keys = << >> THEN c ELSE CacheService_get(c, Head(keys), ttl, t).cache

\* the store after mget(keys, ttl) has read every key in turn
RECURSIVE CacheService_mget(_, _, _, _)
CacheService_mget(c, keys, ttl, t) ==
    IF keys = << >> THEN c
    ELSE CacheService_mget(CacheService_get(c, Head(keys), ttl, t).cache, Tail(keys), ttl, t)

\* the dict mget(keys, ttl) returns: key -> data for the keys get answers
RECURSIVE mget_result(_, _, _, _)
mget_result(c, keys, ttl, t) ==
    IF keys = << >> THEN Empty
    ELSE LET g == CacheService_get(c, Head(keys), ttl, t)
             rest == mget_result(g.cache, Tail(keys), ttl, t)
         IN  IF g.hit /\ Head(keys) \notin DOMAIN rest
             THEN Put(rest, Head(keys), c[Head(keys)].data)
             ELSE rest

EstKey(code) == "est_result_" \o code
HoldKey(code) == "holdings_" \o code
EtfKey == "etf_lof_spot_map"
DailyKey == "fund_open_fund_daily_em_map"
SpotKey == "market_spot_A"

\* a cached map is used only if it is not empty
fetch_cached(c, key, ttl, t, fresh) ==
    LET g == CacheService_get(c, key, ttl, t)
    IN  IF g.hit /\ DOMAIN c[key].data # {}
        THEN [data |-> c[key].data, cache |-> g.cache]
        ELSE [data |-> fresh, cache |-> CacheService_set(g.cache, key, fresh, t)]

\* code -> {price, change, type} of the ETF and LOF spot lists
EtfSpot(u) == [f \in {g \in Funds : u.fund[g].etf.listed} |-> u.fund[f].etf]
fetch_etf_lof_spot_cached(c, t, u) == fetch_cached(c, EtfKey, SPOT_TTL, t, EtfSpot(u))

\* code -> {nav, change} of the daily NAV list
DailySpot(u) == [f \in {g \in Funds : u.fund[g].daily.listed} |-> u.fund[f].daily]
fetch_fund_daily_em_cached(c, t, u) == fetch_cached(c, DailyKey, DAILY_TTL, t, DailySpot(u))

\* code -> {change} of the A-share spot list; a '-' change is 0.0
StockSpot(u) ==
    [s \in {x \in Stocks : u.quote[x].st # "absent"} |->
        [change |-> IF u.quote[s].st = "num" THEN u.quote[s].chg ELSE 0]]
fetch_stock_map_cached(c, t, u) == fetch_cached(c, SpotKey, SPOT_TTL, t, StockSpot(u))

\* lru_cache over (code, day_str): the remembered series, else the fetched one
fetch_fund_history_sync_cached(memo, code, day, u) ==
    IF <<code, day>> \in DOMAIN memo THEN memo[<<code, day>>] ELSE u.fund[code].hist

RECURSIVE Remember(_, _, _, _)
Remember(memo, codes, day, u) ==
    IF codes = << >> THEN memo
    ELSE Remember(Put(memo, <<Head(codes), day>>,
                      fetch_fund_history_sync_cached(memo, Head(codes), day, u)),
                  Tail(codes), day, u)

\* fetch_realtime_estimate_direct_sync
fetch_realtime_estimate_direct_sync(code, u) ==
    LET d == Snapshot(code, "", NumT(0), NumT(0), NumT(0), 0, "none", "")
    IN  IF u.fund[code].feed.ok
        THEN [Update(d, u.fund[code].feed) EXCEPT !.source = "official_realtime"]
        ELSE d

safe_float(x) == IF x.num THEN x.v ELSE 0

\* 'realtime' in source, over the sources a record can carry here
HasRealtime(source) == source \in {"official_realtime", "realtime_etf", "realtime_lof"}

\* official_confirmed_change, as "{:.2f}"
ConfirmedChange(hist) ==
    IF Len(hist) > 1 /\ Prev(hist).nav > 0
    THEN PctChange(Last(hist).nav, Prev(hist).nav)
    ELSE NumT(0)

\* a history rule that takes any positive confirmed NAV, whatever its date
use_history_whenever(hist, api_jzrq, today) ==
    /\ hist # << >>
    /\ Last(hist).nav > 0

\* use_history_as_official: the confirmed NAV is positive and is today's or
\* newer than the NAV date of the feed record
use_history_as_official(hist, api_jzrq, today) ==
    /\ hist # << >>
    /\ Last(hist).nav > 0
    /\ \/ Last(hist).date = today
       \/ api_jzrq # 0 /\ Last(hist).date > api_jzrq

\* the fund is in the ETF/LOF spot map
EtfListed(code, etf_map) == code \in DOMAIN etf_map

\* the fund is in the ETF/LOF spot map with a positive price
EtfQuoted(code, etf_map) == code \in DOMAIN etf_map /\ etf_map[code].price > 0

\* the fund is in the daily NAV map
DailyListed(byHistory, code, daily_map) == code \in DOMAIN daily_map

\* the fund is in the daily NAV map and history has not updated it
DailyApplies(byHistory, code, daily_map) == ~byHistory /\ code \in DOMAIN daily_map

\* the first loop of batch_estimate for one fund: [res, calc]
BackendEntry(code, t, u, hist, etf_map, daily_map) ==
    LET phase == get_time_phase(t)
        today == DayOf(t)
        est == fetch_realtime_estimate_direct_sync(code, u)
        nav == IF hist = << >> THEN 0 ELSE Last(hist).nav
        byHistory == use_history_as_official(hist, est.jzrq, today)
        r1 == IF byHistory
              THEN [est EXCEPT !.dwjz = NumT(nav), !.gsz = NumT(nav),
                               !.gszzl = ConfirmedChange(hist),
                               !.source = "official_history_ak",
                               !.gztime = "updated_official",
                               !.jzrq = Last(hist).date]
              ELSE est
        byDaily == DailyApplies(byHistory, code, daily_map)
        r2 == IF byDaily
              THEN [r1 EXCEPT !.dwjz = NumT(daily_map[code].nav),
                              !.gsz = NumT(daily_map[code].nav),
                              !.gszzl = NumT(daily_map[code].change),
                              !.source = "official_daily_em",
                              !.gztime = "updated_evening",
                              !.jzrq = today]
              ELSE r1
        updated == byHistory \/ byDaily
        byEtf == ~updated /\ EtfQuoted(code, etf_map)
        r3 == IF byEtf
              THEN [r2 EXCEPT !.gsz = NumT(etf_map[code].price),
                              !.gszzl = NumT(etf_map[code].change),
                              !.source = IF etf_map[code].type = "ETF"
                                         THEN "realtime_etf" ELSE "realtime_lof",
                              !.gztime = "live_trade"]
              ELSE r2
        last_nav == IF nav > 0 THEN nav ELSE safe_float(est.dwjz)
    IN  IF updated
        THEN [res |-> r3, calc |-> FALSE]
        ELSE [res |-> [r3 EXCEPT !.internal = {"_last_nav"}, !.last_nav = last_nav],
              calc |-> /\ ~(safe_float(r3.gsz) > 0)
                       /\ phase # "PRE_MARKET"
                       /\ ~HasRealtime(r3.source)]

\* weighted_chg and total_w over the holdings that have a quote
RECURSIVE WeightedChange(_, _)
WeightedChange(hs, a_map) ==
    IF hs = << >> THEN 0
    ELSE (IF Head(hs).code \in DOMAIN a_map
          THEN a_map[Head(hs).code].change * Head(hs).percent ELSE 0)
         + WeightedChange(Tail(hs), a_map)

RECURSIVE TotalWeight(_, _)
TotalWeight(hs, a_map) ==
    IF hs = << >> THEN 0
    ELSE (IF Head(hs).code \in DOMAIN a_map THEN Head(hs).percent ELSE 0)
         + TotalWeight(Tail(hs), a_map)

\* est_chg = (weighted_chg / total_w) * 0.95, as "{:.2f}"
EstChange(wc, tw) == IF tw > 0 THEN Fmt(wc * DAMPING_NUM, tw * DAMPING_DEN) ELSE NumT(0)

\* est_val = last_n * (1 + est_chg / 100.0), as "{:.4f}"
EstValue(last_n, wc, tw) ==
    IF tw > 0
    THEN FmtSum(last_n, last_n * wc * DAMPING_NUM, tw * DAMPING_DEN * 10000)
    ELSE NumT(last_n)

\* the second loop of batch_estimate for one fund that needs the calculation
BackendCalc(data, hs, a_map) ==
    IF hs = << >> \/ ~(data.last_nav > 0) THEN data
    ELSE [data EXCEPT
            !.gsz = EstValue(data.last_nav, WeightedChange(hs, a_map), TotalWeight(hs, a_map)),
            !.gszzl = EstChange(WeightedChange(hs, a_map), TotalWeight(hs, a_map)),
            !.source = "holdings_calc_batch",
            !.gztime = "hh:mm"]

\* the codes of a list whose key mget does not answer, in order
RECURSIVE MissingCodes(_, _, _)
MissingCodes(codes, c, t) ==
    IF codes = << >> THEN << >>
    ELSE IF CacheService_get(c, EstKey(Head(codes)), CACHE_TTL, t).hit
         THEN MissingCodes(Tail(codes), c, t)
         ELSE <<Head(codes)>> \o MissingCodes(Tail(codes), c, t)

RECURSIVE CachedResults(_, _, _)
CachedResults(codes, c, t) ==
    IF codes = << >> THEN << >>
    ELSE IF CacheService_get(c, EstKey(Head(codes)), CACHE_TTL, t).hit
         THEN <<c[EstKey(Head(codes))].data>> \o CachedResults(Tail(codes), c, t)
         ELSE CachedResults(Tail(codes), c, t)

RECURSIVE EstKeys(_)
EstKeys(codes) == IF codes = << >> THEN << >> ELSE <<EstKey(Head(codes))>> \o EstKeys(Tail(codes))

\* the store after the holdings of calc_needed were read, and fetched where the
\* read gave nothing or an empty list
RECURSIVE HoldingsFetched(_, _, _, _)
HoldingsFetched(c, codes, t, u) ==
    IF codes = << >> THEN c
    ELSE LET g == CacheService_get(c, HoldKey(Head(codes)), HOLDINGS_TTL, t)
             c1 == IF g.hit /\ c[HoldKey(Head(codes))].data # << >>
                   THEN g.cache
                   ELSE CacheService_set(g.cache, HoldKey(Head(codes)), u.fund[Head(codes)].hold, t)
         IN  HoldingsFetched(c1, Tail(codes), t, u)

RECURSIVE StoreResults(_, _, _, _)
StoreResults(c, codes, final, t) ==
    IF codes = << >> THEN c
    ELSE StoreResults(CacheService_set(c, EstKey(Head(codes)), final[Head(codes)], t),
                      Tail(codes), final, t)

\* FundController.batch_estimate: [list, cache, memo], with missing_codes and calc_needed
batch_estimate(codes, t, c, memo, u) ==
    LET c0 == CacheService_mget(c, EstKeys(codes), CACHE_TTL, t)
        missing == MissingCodes(codes, c, t)
        results == CachedResults(codes, c, t)
        today == DayOf(t)
        phase == get_time_phase(t)
        etf == fetch_etf_lof_spot_cached(c0, t, u)
        daily == IF phase = "POST_MARKET"
                 THEN fetch_fund_daily_em_cached(etf.cache, t, u)
                 ELSE [data |-> Empty, cache |-> etf.cache]
        memo1 == Remember(memo, missing, today, u)
        entry == [f \in Range(missing) |->
                    BackendEntry(f, t, u, fetch_fund_history_sync_cached(memo, f, today, u),
                                 etf.data, daily.data)]
        calc_needed == SeqFilter(missing, {f \in Range(missing) : entry[f].calc})
        c1 == HoldingsFetched(daily.cache, calc_needed, t, u)
        hs == [f \in Range(calc_needed) |-> c1[HoldKey(f)].data]
        spot == IF \E f \in Range(calc_needed) : hs[f] # << >>
                THEN fetch_stock_map_cached(c1, t, u)
                ELSE [data |-> Empty, cache |-> c1]
        final == [f \in Range(missing) |->
                    IF entry[f].calc THEN BackendCalc(entry[f].res, hs[f], spot.data)
                    ELSE entry[f].res]
    IN  IF missing = << >>
        THEN [list |-> results, cache |-> c0, memo |-> memo,
              missing |-> << >>, calc |-> << >>]
        ELSE [list |-> results \o [i \in 1..Len(missing) |-> final[missing[i]]],
              cache |-> StoreResults(spot.cache, missing, final, t),
              memo |-> memo1, missing |-> missing, calc |-> calc_needed]

----------------------------------------------------------------------------
(* The state machine *)

\* the lists of fund ids a batch request can carry
BatchLists == UNION {[1..n -> Funds] : n \in 0..MaxBatch}

\* req is the last request: its operation, its ids, the instant it was served at,
\* the ids it resolved afresh and the ids it put through the holdings calculation;
\* out is its response
NoRequest == [op |-> "none", codes |-> << >>, at |-> 1, missing |-> << >>, calc |-> << >>]

Init ==
    /\ app \in {"main", "backend"}
    /\ clk = 1
    /\ up \in Worlds
    /\ cache = Empty
    /\ lru = Empty
    /\ holdings = Empty
    /\ req = NoRequest
    /\ out = [raised |-> FALSE, list |-> << >>]

\* time passes
Tick ==
    /\ clk < Len(Instants)
    /\ clk' = clk + 1
    /\ UNCHANGED <<app, up, cache, lru, holdings, req, out>>

\* src/main.py GET /api/estimate/{code}
get_estimate_api(code) ==
    /\ app = "main"
    /\ \E r \in {_process_single_fund_estimate(code, Now(clk), holdings, up)} :
        /\ req' = [op |-> "single", codes |-> <<code>>, at |-> clk, missing |-> <<code>>,
                   calc |-> IF r.calc THEN <<code>> ELSE << >>]
        /\ out' = [raised |-> r.raised, list |-> IF r.raised THEN << >> ELSE <<r.data>>]
        /\ holdings' = r.hc
        /\ UNCHANGED <<app, clk, up, cache, lru>>

\* src/main.py POST /api/estimate/batch
post_estimate_batch(codes) ==
    /\ app = "main"
    /\ \E r \in {get_batch_estimate(codes, Now(clk), holdings, up)} :
        /\ req' = [op |-> "batch", codes |-> codes, at |-> clk, missing |-> codes,
                   calc |-> r.calc]
        /\ out' = [raised |-> r.raised, list |-> r.list]
        /\ holdings' = r.hc
        /\ UNCHANGED <<app, clk, up, cache, lru>>

\* src/backend/main.py POST /api/estimate/batch and GET /api/estimate/{code}
estimate_batch(codes) ==
    /\ app = "backend"
    /\ \E r \in {batch_estimate(codes, Now(clk), cache, lru, up)} :
        /\ req' = [op |-> "batch", codes |-> codes, at |-> clk, missing |-> r.missing,
                   calc |-> r.calc]
        /\ out' = [raised |-> FALSE, list |-> r.list]
        /\ cache' = r.cache
        /\ lru' = r.memo
        /\ UNCHANGED <<app, clk, up, holdings>>

Next ==
    \/ Tick
    \/ \E code \in Funds : get_estimate_api(code)
    \/ \E codes \in BatchLists : post_estimate_batch(codes)
    \/ \E codes \in BatchLists : estimate_batch(codes)

Spec == Init /\ [][Next]_vars

----------------------------------------------------------------------------
(* What the claims speak of *)

\* the instant, phase and date of the last request
At == Now(req.at)
PhaseAt == IF app = "main" THEN _get_time_phase(At) ELSE get_time_phase(At)
TodayAt == DayOf(At)

HistOf(f) == up.fund[f].hist
FeedOf(f) == up.fund[f].feed
HoldOf(f) == up.fund[f].hold

\* the latest confirmed NAV is dated today
ConfirmedToday(f) == HistOf(f) # << >> /\ Last(HistOf(f)).date = TodayAt

\* the NAV the feed reports, if it reports a positive one
FeedNav(f) == IF FeedOf(f).ok /\ FeedOf(f).dwjz.num THEN FeedOf(f).dwjz.v ELSE 0

\* the last confirmed NAV: the history's, else the feed's, else none (0)
LastConfirmed(f) == IF HistOf(f) # << >> THEN Last(HistOf(f)).nav ELSE FeedNav(f)

\* the source tags by tier
OfficialSources ==
    {"official", "real_history", "real_updated",
     "official_realtime", "official_history_ak", "official_daily_em"}
LiveSources == {"realtime_etf", "realtime_lof"}
HoldingsSources == {"holdings_calc", "holdings_close_est", "holdings_calc_batch"}

\* the ids the last request resolved itself, and those it put through the holdings calculation
Fresh == Range(req.missing)
Calculated == Range(req.calc)

\* the snapshots a list holds for one fund
SnapshotsOf(list, f) == {list[i] : i \in {j \in DOMAIN list : list[j].fundcode = f}}

\* the holdings that have a quote, their weights and their weighted changes
Quoted(code) == up.quote[code].st = "num"

RECURSIVE QuotedWeight(_)
QuotedWeight(hs) ==
    IF hs = << >> THEN 0
    ELSE (IF Quoted(Head(hs).code) THEN Head(hs).percent ELSE 0) + QuotedWeight(Tail(hs))

RECURSIVE QuotedChange(_)
QuotedChange(hs) ==
    IF hs = << >> THEN 0
    ELSE (IF Quoted(Head(hs).code) THEN up.quote[Head(hs).code].chg * Head(hs).percent ELSE 0)
         + QuotedChange(Tail(hs))

\* the world with the unquoted holdings of one fund left out of its holdings list
QuotedOnly(f) ==
    [up EXCEPT !.fund[f].hold = SelectSeq(HoldOf(f), LAMBDA h : Quoted(h.code))]

\* the change the running program estimates for one fund alone in world u
ChangeAlone(f, u) ==
    IF app = "main"
    THEN get_batch_estimate(<<f>>, At, Empty, u).list[1].gszzl
    ELSE batch_estimate(<<f>>, At, Empty, Empty, u).list[1].gszzl

\* the coverage the running program sums over a holdings list
CoverageUsed(hs) ==
    IF app = "main" THEN MainTotalWeight(hs) ELSE TotalWeight(hs, StockSpot(up))

----------------------------------------------------------------------------
(* The claims *)

\* C1: in WEEKEND and PRE_MARKET every returned snapshot of a fund whose
\* confirmed NAV is not dated today has an official source tier, a change of
\* exactly zero and an estimated value equal to the last confirmed NAV.
C1_StaticBeforeOpen ==
    \A i \in DOMAIN out.list :
        LET s == out.list[i]
            f == out.list[i].fundcode
        IN  (PhaseAt \in {"WEEKEND", "PRE_MARKET"} /\ ~ConfirmedToday(f)) =>
                /\ s.source \in OfficialSources
                /\ s.gszzl = NumT(0)
                /\ (LastConfirmed(f) > 0 => s.gsz = NumT(LastConfirmed(f)))

\* C2: a fund whose latest confirmed NAV is dated today gets, in every phase, a
\* snapshot tagged official whose estimated value is that NAV and whose change
\* is the realized change between the last two confirmed NAVs.
C2_ConfirmedTodayIsOfficial ==
    \A i \in DOMAIN out.list :
        LET s == out.list[i]
            h == HistOf(out.list[i].fundcode)
        IN  (ConfirmedToday(s.fundcode) /\ Last(h).nav > 0) =>
                /\ s.source \in OfficialSources
                /\ s.gsz = NumT(Last(h).nav)
                /\ (Len(h) >= 2 /\ Prev(h).nav > 0 =>
                        s.gszzl = PctChange(Last(h).nav, Prev(h).nav))

\* C3: the batch returns its snapshots in the order of the requested ids: the
\* snapshot at position i is the one of the id at position i.
C3_RequestOrder ==
    ~out.raised =>
        /\ Len(out.list) = Len(req.codes)
        /\ \A i \in DOMAIN out.list : out.list[i].fundcode = req.codes[i]

\* C4: in a batch of several funds where the feed of one fund fails, the batch
\* returns one snapshot per requested id, the snapshots of the other funds are
\* what they are in the batch without that fund, and the failing fund gets a
\* snapshot that is not the feed's estimate.
FeedFailed(codes) == {f \in Range(codes) : ~FeedOf(f).ok}
Others(codes) == SeqFilter(codes, Range(codes) \ FeedFailed(codes))
C4_FeedFailureIsolated ==
    [][\A codes \in BatchLists :
        (/\ post_estimate_batch(codes) \/ estimate_batch(codes)
         /\ Cardinality(Range(codes)) >= 2
         /\ Cardinality(FeedFailed(codes)) = 1) =>
            /\ ~out'.raised
            /\ Len(out'.list) = Len(codes)
            /\ \A f \in Range(codes) : SnapshotsOf(out'.list, f) # {}
            /\ \A f \in Range(codes) \ FeedFailed(codes) :
                SnapshotsOf(out'.list, f) =
                    SnapshotsOf(IF app = "main"
                                THEN get_batch_estimate(Others(codes), Now(clk), holdings, up).list
                                ELSE batch_estimate(Others(codes), Now(clk), cache, lru, up).list,
                                f)
            /\ \A f \in FeedFailed(codes) : \A s \in SnapshotsOf(out'.list, f) :
                s.source \notin {"official", "official_realtime"} \/ s.gsz.v = LastConfirmed(f)
      ]_vars

\* C5: resolving a fund never raises: every request ends in a returned
\* snapshot per requested id.
C5_NeverRaises == ~out.raised /\ Len(out.list) = Len(req.codes)

\* C6: whenever a positive confirmed NAV is available from the history or from
\* the feed, the returned snapshot's dwjz is a positive confirmed NAV of the
\* fund, its jzrq is not empty and its gsz is positive.
ConfirmedNavs(f) ==
    {n \in {LastConfirmed(f), FeedNav(f),
            IF up.fund[f].daily.listed THEN up.fund[f].daily.nav ELSE 0} : n > 0}
C6_FullyPopulated ==
    \A i \in DOMAIN out.list :
        LET s == out.list[i]
        IN  (LastConfirmed(s.fundcode) > 0 \/ FeedNav(s.fundcode) > 0) =>
                /\ s.dwjz.num /\ s.dwjz.v \in ConfirmedNavs(s.fundcode)
                /\ s.jzrq # 0
                /\ s.gsz.num /\ s.gsz.v > 0

\* C7: a snapshot that carries the feed's intraday estimate was resolved in an
\* open session from a feed whose change is not zero; a zero change or a
\* closed session demotes the feed, and the snapshot is not the feed's estimate.
IsFeedEstimate(s) ==
    /\ FeedOf(s.fundcode).ok
    /\ FeedOf(s.fundcode).gsz.num /\ FeedOf(s.fundcode).gsz.v > 0
    /\ s.source \in {"official", "official_realtime"}
    /\ s.gsz = FeedOf(s.fundcode).gsz
    /\ s.gszzl = FeedOf(s.fundcode).gszzl
C7_FeedEstimateGate ==
    \A i \in DOMAIN out.list :
        (out.list[i].fundcode \in Fresh /\ IsFeedEstimate(out.list[i])) =>
            /\ FeedOf(out.list[i].fundcode).gszzl.v # 0 => PhaseAt = "MARKET"
            /\ PhaseAt = "MARKET" => FeedOf(out.list[i].fundcode).gszzl.v # 0

\* C8: outside WEEKEND and PRE_MARKET, a fund that is not officially updated,
\* has no own quote, and whose feed was fetched but reports an estimate (gsz)
\* of 0, is put through the holdings calculation, and its snapshot is the
\* holdings estimate when its holdings have quotes.
ZeroEstimate(f) == FeedOf(f).ok /\ (~FeedOf(f).gsz.num \/ FeedOf(f).gsz.v = 0)
C8_ZeroEstimateCalculated ==
    \A i \in DOMAIN out.list :
        LET s == out.list[i]
            f == out.list[i].fundcode
        IN  (/\ f \in Fresh
             /\ PhaseAt \notin {"WEEKEND", "PRE_MARKET"}
             /\ ZeroEstimate(f)
             /\ s.source \notin {"official_history_ak", "official_daily_em", "real_updated"}
             /\ s.source \notin LiveSources) =>
                /\ f \in Calculated
                /\ (QuotedWeight(HoldOf(f)) > 0 /\ LastConfirmed(f) > 0 =>
                        s.source \in HoldingsSources)

\* C9: a holding without a quote is left out of both the weighted sum and the
\* coverage of the holdings calculation, it is not counted as a holding whose
\* change is 0; so the estimated change is the one computed without it.
C9_UnquotedExcluded ==
    \A i \in DOMAIN out.list :
        LET s == out.list[i]
            f == out.list[i].fundcode
        IN  (f \in Calculated /\ HoldOf(f) # << >>) =>
                /\ CoverageUsed(HoldOf(f)) = QuotedWeight(HoldOf(f))
                /\ s.gszzl = ChangeAlone(f, QuotedOnly(f))

\* C10: a holdings estimate's change is (sum of weight x change / coverage)
\* x 0.95 and its value is last confirmed NAV x (1 + change / 100).
C10_DampedWeightedChange ==
    \A i \in DOMAIN out.list :
        LET s == out.list[i]
            f == out.list[i].fundcode
            wc == QuotedChange(HoldOf(out.list[i].fundcode))
            cov == QuotedWeight(HoldOf(out.list[i].fundcode))
        IN  (/\ f \in Calculated
             /\ s.source \in HoldingsSources
             /\ cov > 0 /\ LastConfirmed(f) > 0) =>
                /\ s.gszzl = Fmt(wc * 19, cov * 20)
                /\ s.gsz = FmtSum(LastConfirmed(f), LastConfirmed(f) * wc * 19, cov * 200000)

\* C11: when the coverage of a fund's holdings (the weights of the holdings
\* that have a quote) is below the minimum threshold of 10 percent, also when
\* no holding has a quote, the snapshot is not tagged as a holdings estimate.
C11_LowCoverageRejected ==
    \A i \in DOMAIN out.list :
        (/\ out.list[i].fundcode \in Fresh
         /\ QuotedWeight(HoldOf(out.list[i].fundcode)) < 10) =>
            out.list[i].source \notin HoldingsSources

\* C12: when every tier is exhausted for a fund (feed unavailable, not
\* confirmed today, no own quote, no holdings or no quoted holding), its
\* snapshot carries the last confirmed NAV as estimated value, a change of zero
\* and a source tag that is none of the official, live and holdings tags.
Exhausted(f) ==
    /\ ~FeedOf(f).ok
    /\ ~ConfirmedToday(f)
    /\ ~up.fund[f].daily.listed
    /\ ~(up.fund[f].etf.listed /\ up.fund[f].etf.price > 0)
    /\ QuotedWeight(HoldOf(f)) = 0
C12_StaleMarked ==
    \A i \in DOMAIN out.list :
        LET s == out.list[i]
            f == out.list[i].fundcode
        IN  (f \in Fresh /\ PhaseAt = "MARKET" /\ Exhausted(f) /\ LastConfirmed(f) > 0) =>
                /\ s.gsz = NumT(LastConfirmed(f))
                /\ s.gszzl = NumT(0)
                /\ s.source \notin OfficialSources \cup LiveSources \cup HoldingsSources

----------------------------------------------------------------------------
(* ProxyResolver (spec section 4.4, rule 2): the keyword table.  The source   *)
(* files at hand hold no keyword table; the resolver is modelled from its    *)
(* specification.  A name and a keyword are sequences of characters.         *)

\* the longest fund name resolved
MaxName == 4

Chars == {"a", "b", "c"}
Names == UNION {[1..n -> Chars] : n \in 0..MaxName}

\* the static table keyword -> instrument, in its fixed order
ProxyTable ==
    << [keyword |-> <<"a">>, id |-> StockA],
       [keyword |-> <<"a", "b">>, id |-> StockB],
       [keyword |-> <<"b", "c">>, id |-> StockA],
       [keyword |-> <<"c", "c", "a">>, id |-> StockB],
       [keyword |-> <<"c">>, id |-> StockA] >>

\* keyword is a substring of name
IsSubstring(keyword, name) ==
    \E i \in 1..(Len(name) - Len(keyword) + 1) :
        SubSeq(name, i, i + Len(keyword) - 1) = keyword

\* entry i replaces the best entry found so far (0: none yet)
LongerWins(i, best) ==
    best = 0 \/ Len(ProxyTable[i].keyword) >= Len(ProxyTable[best].keyword)

Replaces(i, best) ==
    best = 0 \/ Len(ProxyTable[i].keyword) > Len(ProxyTable[best].keyword)

\* the table scanned from entry i on, best being the best match among the entries before i
RECURSIVE ScanTable(_, _, _)
ScanTable(name, i, best) ==
    IF i > Len(ProxyTable) THEN best
    ELSE ScanTable(name, i + 1,
                   IF IsSubstring(ProxyTable[i].keyword, name) /\ Replaces(i, best)
                   THEN i ELSE best)

\* resolve(fundName) by keyword: the entry chosen and its instrument, or none
resolve(name) ==
    LET best == ScanTable(name, 1, 0)
    IN  [entry |-> best, id |-> IF best = 0 THEN "none" ELSE ProxyTable[best].id]

ProxyInit ==
    /\ app = "ProxyResolver"
    /\ clk = 1
    /\ up = World(Profile2, Profile2, AllQuoted)
    /\ cache = Empty
    /\ lru = Empty
    /\ holdings = Empty
    /\ req = [op |-> "none", name |-> << >>]
    /\ out = resolve(<< >>)

Resolve(name) ==
    /\ req' = [op |-> "resolve", name |-> name]
    /\ out' = resolve(name)
    /\ UNCHANGED <<app, clk, up, cache, lru, holdings>>

ProxyNext == \E name \in Names : Resolve(name)

ProxySpec == ProxyInit /\ [][ProxyNext]_vars

\* the entries of the table whose keyword is a substring of the name
Matches(name) == {i \in DOMAIN ProxyTable : IsSubstring(ProxyTable[i].keyword, name)}

\* C13: keyword resolution picks, among the table keywords that are substrings
\* of the fund name, one of the greatest length, never a shorter one when a
\* longer one matches, and among equal lengths the first in table order; it
\* yields none exactly when no keyword matches.
C13_LongestKeyword ==
    req.op = "resolve" =>
        IF Matches(req.name) = {}
        THEN out.entry = 0 /\ out.id = "none"
        ELSE /\ out.entry \in Matches(req.name)
             /\ out.id = ProxyTable[out.entry].id
             /\ \A j \in Matches(req.name) :
                    \/ Len(ProxyTable[j].keyword) < Len(ProxyTable[out.entry].keyword)
                    \/ /\ Len(ProxyTable[j].keyword) = Len(ProxyTable[out.entry].keyword)
                       /\ out.entry <= j

\* a name in which a short generic keyword, a longer one and two keywords of
\* equal length all match has been resolved
C13_Witness ==
    /\ req.op = "resolve"
    /\ {1, 2, 3} \subseteq Matches(req.name)
    /\ out.entry = 2

\* the characters of the name the feed reports for a fund, and the proxy
\* instrument the keyword table gives for it
Spelling(name) == IF name = "fund" THEN <<"c", "a", "b">> ELSE << >>
ProxyOf(f) == IF FeedOf(f).ok THEN resolve(Spelling("fund")).id ELSE "none"

\* C14: in MARKET, a fund whose feed reports a change of 0.00, whose name
\* matches a proxy keyword and whose proxy instrument has a live quote gets the
\* estimated value last confirmed NAV x (1 + proxy change / 100), and is tagged
\* neither official nor a holdings estimate.
C14_ProxyTier ==
    \A i \in DOMAIN out.list :
        LET s == out.list[i]
            f == out.list[i].fundcode
        IN  (/\ f \in Fresh
             /\ PhaseAt = "MARKET"
             /\ FeedOf(f).ok /\ FeedOf(f).gszzl = NumT(0)
             /\ ~ConfirmedToday(f) /\ LastConfirmed(f) > 0
             /\ ~up.fund[f].etf.listed
             /\ ProxyOf(f) \in Stocks /\ Quoted(ProxyOf(f))) =>
                /\ s.gsz = FmtSum(LastConfirmed(f),
                                  LastConfirmed(f) * up.quote[ProxyOf(f)].chg, 10000)
                /\ s.source \notin OfficialSources \cup HoldingsSources

\* the world in which one fund is in no ETF/LOF spot list
Unlisted(f) == [up EXCEPT !.fund[f].etf = NotListed]

\* C15: in src/backend/main.py a freshly resolved fund that is in the ETF/LOF
\* spot map and is not officially updated is resolved from its own quote when
\* the price is positive: estimated value and change are the quote's, the
\* source is realtime_etf or realtime_lof, and it is not put through the
\* holdings calculation; when the price is not positive the quote is ignored
\* and the snapshot is the one the fund gets when it is in no spot list.
C15_OwnQuote ==
    \A i \in DOMAIN out.list :
        LET s == out.list[i]
            f == out.list[i].fundcode
        IN  (/\ app = "backend"
             /\ f \in Fresh
             /\ f \in DOMAIN EtfSpot(up)
             /\ s.source \notin {"official_history_ak", "official_daily_em"}) =>
                IF up.fund[f].etf.price > 0
                THEN /\ s.gsz = NumT(up.fund[f].etf.price)
                     /\ s.gszzl = NumT(up.fund[f].etf.change)
                     /\ s.source = (IF up.fund[f].etf.type = "ETF"
                                    THEN "realtime_etf" ELSE "realtime_lof")
                     /\ f \notin Calculated
                ELSE /\ s.source \notin LiveSources
                     /\ s = batch_estimate(<<f>>, At, Empty, Empty, Unlisted(f)).list[1]

\* a fund with a positive own quote, whose feed is down and whose holdings are
\* quoted, has been resolved in MARKET from its own quote
C15_Witness ==
    /\ app = "backend"
    /\ PhaseAt = "MARKET"
    /\ \E i \in DOMAIN out.list :
        /\ out.list[i].fundcode \in Fresh
        /\ ~FeedOf(out.list[i].fundcode).ok
        /\ up.fund[out.list[i].fundcode].etf.price > 0
        /\ QuotedWeight(HoldOf(out.list[i].fundcode)) > 0
        /\ out.list[i].source = "realtime_etf"

(***************************************************************************)
(* The two caches on their own: CacheService of src/backend/main.py (store *)
(* cache, ttl given by each get) and DataCache.holdings of src/main.py     *)
(* (store holdings, ttl of one day).  Here clk is the time in seconds, req *)
(* is the last call, its time (at), the most recent set of every key       *)
(* (sets) and the keys read expired since that set (expired), and          *)
(* out is what the last get returned.                                      *)
(***************************************************************************)
Keys == {"k1", "k2"}
Values == {1, 2}
Ttls == {0, 1, 60}
CacheTimes == {0, 1, 2, 60, 61, DAY, DAY + 1}

\* the key lists of an mget: no key, one key, two keys (also the same twice)
KeyLists == UNION {[1..n -> Keys] : n \in 0..Cardinality(Keys)}

Absent == [hit |-> FALSE, data |-> 0]

CacheInit ==
    /\ app \in {"main", "backend"}
    /\ clk = 0
    /\ up = World(Profile2, Profile2, AllQuoted)
    /\ cache = Empty
    /\ lru = Empty
    /\ holdings = Empty
    /\ req = [op |-> "none", key |-> "k1", ttl |-> 0, data |-> 0, at |-> 0,
              sets |-> Empty, expired |-> {}]
    /\ out = Absent

\* time passes
CacheTick ==
    /\ \E t \in CacheTimes : t > clk /\ clk' = t
    /\ UNCHANGED <<app, up, cache, lru, holdings, req, out>>

\* cache_service.set(key, data)
ServiceSet(key, data) ==
    /\ app = "backend"
    /\ cache' = CacheService_set(cache, key, data, clk)
    /\ req' = [op |-> "set", key |-> key, ttl |-> 0, data |-> data, at |-> clk,
               sets |-> Put(req.sets, key, [data |-> data, time |-> clk]),
               expired |-> req.expired \ {key}]
    /\ UNCHANGED <<app, clk, up, lru, holdings, out>>

\* cache_service.get(key, ttl)
ServiceGet(key, ttl) ==
    /\ app = "backend"
    /\ \E g \in {CacheService_get(cache, key, ttl, clk)} :
        /\ cache' = g.cache
        /\ out' = IF g.hit THEN [hit |-> TRUE, data |-> cache[key].data] ELSE Absent
    /\ req' = [req EXCEPT !.op = "get", !.key = key, !.ttl = ttl, !.data = 0, !.at = clk,
                          !.expired = IF /\ key \in DOMAIN req.sets
                                         /\ ttl > 0
                                         /\ clk - req.sets[key].time >= ttl
                                      THEN @ \cup {key} ELSE @]
    /\ UNCHANGED <<app, clk, up, lru, holdings>>

\* cache_service.mget(keys, ttl)
ServiceMget(keys, ttl) ==
    /\ app = "backend"
    /\ cache' = CacheService_mget(cache, keys, ttl, clk)
    /\ out' = [hit |-> FALSE, data |-> 0, keys |-> keys,
               result |-> mget_result(cache, keys, ttl, clk)]
    /\ req' = [req EXCEPT !.op = "mget", !.ttl = ttl, !.data = 0, !.at = clk,
                          !.expired = @ \cup {k \in Range(keys) \cap DOMAIN req.sets :
                                                  ttl > 0 /\ clk - req.sets[k].time >= ttl}]
    /\ UNCHANGED <<app, clk, up, lru, holdings>>

\* data_cache.set_holdings(code, data)
HoldingsSet(key, data) ==
    /\ app = "main"
    /\ holdings' = DataCache_set_holdings(holdings, key, data, clk)
    /\ req' = [op |-> "set", key |-> key, ttl |-> 0, data |-> data, at |-> clk,
               sets |-> Put(req.sets, key, [data |-> data, time |-> clk]),
               expired |-> req.expired \ {key}]
    /\ UNCHANGED <<app, clk, up, cache, lru, out>>

\* data_cache.get_holdings(code)
HoldingsGet(key) ==
    /\ app = "main"
    /\ \E g \in {DataCache_get_holdings(holdings, key, clk)} :
        out' = IF g.hit THEN [hit |-> TRUE, data |-> g.data] ELSE Absent
    /\ req' = [req EXCEPT !.op = "get", !.key = key, !.ttl = HOLDINGS_TTL, !.data = 0, !.at = clk,
                          !.expired = IF /\ key \in DOMAIN req.sets
                                         /\ clk - req.sets[key].time >= HOLDINGS_TTL
                                      THEN @ \cup {key} ELSE @]
    /\ UNCHANGED <<app, clk, up, cache, lru, holdings>>

CacheNext ==
    \/ CacheTick
    \/ \E key \in Keys, data \in Values : ServiceSet(key, data)
    \/ \E key \in Keys, ttl \in Ttls : ServiceGet(key, ttl)
    \/ \E keys \in KeyLists, ttl \in Ttls : ServiceMget(keys, ttl)
    \/ \E key \in Keys, data \in Values : HoldingsSet(key, data)
    \/ \E key \in Keys : HoldingsGet(key)

CacheSpec == CacheInit /\ [][CacheNext]_vars

\* the last call was a get with a positive ttl, issued less than ttl after
\* the most recent set of its key
WithinTtl ==
    /\ req.op = "get"
    /\ req.ttl > 0
    /\ req.key \in DOMAIN req.sets
    /\ req.at - req.sets[req.key].time < req.ttl

\* C16 as stated: a get(k, ttl) issued less than ttl after the most recent
\* set(k, v) returns exactly v, whatever operations came in between.
C16_GetWithinTtl ==
    WithinTtl => out = [hit |-> TRUE, data |-> req.sets[req.key].data]

\* C16 amended: a get(k, ttl) issued less than ttl after the most recent
\* set(k, v) returns exactly v unless a get of k since that set found the
\* entry expired under its own, shorter ttl; then it returns absent.  It
\* never returns another value than v.
C16_GetWithinTtlUnlessExpired ==
    WithinTtl =>
        IF req.key \in req.expired
        THEN out = Absent
        ELSE out = [hit |-> TRUE, data |-> req.sets[req.key].data]

\* a key set twice with different values has been read within ttl of the
\* second set, at a later time than that set
C16_Witness ==
    /\ WithinTtl
    /\ req.key \notin req.expired
    /\ req.at > req.sets[req.key].time
    /\ req.sets[req.key].time > 0
    /\ out = [hit |-> TRUE, data |-> 2]

\* the store of the cache in use
Store == IF app = "backend" THEN cache ELSE holdings

\* the last call was a get with a positive ttl, issued ttl or more after the
\* most recent set of its key
ExpiredRead ==
    /\ req.op = "get"
    /\ req.ttl > 0
    /\ req.key \in DOMAIN req.sets
    /\ req.at - req.sets[req.key].time >= req.ttl

\* C17: a get at age >= ttl (the boundary included) returns absent and
\* removes the entry; the entry is not returned by any later get until a new
\* set of the key; after that set the entry is in the store again with the
\* time of the set as its insertion time.
C17_ExpiredEvicted ==
    /\ ExpiredRead => out = Absent /\ req.key \notin DOMAIN Store
    /\ (req.op = "get" /\ req.key \in req.expired) => out = Absent
    /\ req.op = "set" =>
        /\ req.key \in DOMAIN Store
        /\ Store[req.key] = req.sets[req.key]
        /\ req.sets[req.key].data = req.data
        /\ req.key \notin req.expired

(***************************************************************************)
(* CacheService of src/backend/main.py called from several threads: the    *)
(* event loop and the executor threads that run the fetch_*_cached         *)
(* functions.  CacheService holds no lock, so a get is three steps (read   *)
(* the entry, compare its age, delete it) between which other threads run. *)
(* Here req is the position of every thread in its call and out is the     *)
(* record of an exception raised by a call (raised) and of the most recent *)
(* set of every key (sets).                                                *)
(***************************************************************************)
Threads == {"t1", "t2"}
ThreadTimes == {0, 1, 2, 60}

Idle == [pc |-> "idle", key |-> "k1", ttl |-> 0, has |-> FALSE, time |-> 0]

ThreadInit ==
    /\ app = "backend"
    /\ clk = 0
    /\ up = World(Profile2, Profile2, AllQuoted)
    /\ cache = Empty
    /\ lru = Empty
    /\ holdings = Empty
    /\ req = [th \in Threads |-> Idle]
    /\ out = [raised |-> FALSE, sets |-> Empty]

\* time passes
ThreadTick ==
    /\ \E t \in ThreadTimes : t > clk /\ clk' = t
    /\ UNCHANGED <<app, up, cache, lru, holdings, req, out>>

\* self._cache[key] = {"data": data, "time": time_module.time()}
ThreadSet(th, key, data) ==
    /\ req[th].pc = "idle"
    /\ cache' = CacheService_set(cache, key, data, clk)
    /\ out' = [out EXCEPT !.sets = Put(@, key, [data |-> data, time |-> clk])]
    /\ UNCHANGED <<app, clk, up, lru, holdings, req>>

\* entry = self._cache.get(key)
ThreadRead(th, key, ttl) ==
    /\ req[th].pc = "idle"
    /\ req' = [req EXCEPT ![th] =
                  [pc |-> "read", key |-> key, ttl |-> ttl,
                   has |-> key \in DOMAIN cache,
                   time |-> IF key \in DOMAIN cache THEN cache[key].time ELSE 0]]
    /\ UNCHANGED <<app, clk, up, cache, lru, holdings, out>>

\* if entry: if ttl == 0 or time_module.time() - entry['time'] < ttl: return
\* entry['data'];  return None when there is no entry
ThreadCheck(th) ==
    /\ req[th].pc = "read"
    /\ req' = [req EXCEPT ![th] =
                  IF req[th].has /\ ~(req[th].ttl = 0 \/ clk - req[th].time < req[th].ttl)
                  THEN [@ EXCEPT !.pc = "del"]
                  ELSE Idle]
    /\ UNCHANGED <<app, clk, up, cache, lru, holdings, out>>

\* del self._cache[key], which raises KeyError when the key is not there
ThreadDel(th) ==
    /\ req[th].pc = "del"
    /\ cache' = Del(cache, req[th].key)
    /\ out' = [out EXCEPT !.raised = @ \/ req[th].key \notin DOMAIN cache]
    /\ req' = [req EXCEPT ![th] = Idle]
    /\ UNCHANGED <<app, clk, up, lru, holdings>>

ThreadNext ==
    \/ ThreadTick
    \/ \E th \in Threads, key \in Keys, data \in Values : ThreadSet(th, key, data)
    \/ \E th \in Threads, key \in Keys, ttl \in Ttls : ThreadRead(th, key, ttl)
    \/ \E th \in Threads : ThreadCheck(th)
    \/ \E th \in Threads : ThreadDel(th)

ThreadSpec == ThreadInit /\ [][ThreadNext]_vars

\* C18: interleaved calls on the shared cache never raise (such as a delete
\* of an entry another thread has already deleted), and the store is one
\* that the calls run one after the other could leave: an entry set at the
\* present time, which no get run after the set can find expired, is in the
\* store.
C18_ConcurrentSafe ==
    /\ ~out.raised
    /\ \A key \in DOMAIN out.sets :
        out.sets[key].time = clk => key \in DOMAIN cache /\ cache[key] = out.sets[key]

(***************************************************************************)
(* _get_stock_realtime_quotes of src/main.py on its own, for long lists of *)
(* stock codes.  Codes are the numbers 1..MaxIds; up is the provider's     *)
(* answer for every code, req the call and out the requests sent (one      *)
(* sequence of codes per request) and the merged quotes.                   *)
(***************************************************************************)
MaxIds == 91
MaxDup == 2
BATCH_SIZE == 30

Ids == 1..MaxIds
Min(a, b) == IF a < b THEN a ELSE b

\* what the provider holds for a code: a number, '-', a null field, or no row
NumRow(id) == [st |-> "num", chg |-> ((id % 5) - 2) * 100]
QuoteFeeds ==
    { [id \in Ids |-> NumRow(id)],
      [id \in Ids |-> IF id % 3 = 0 THEN NoQuote ELSE NumRow(id)],
      [id \in Ids |-> IF id % 4 = 0 THEN [st |-> "dash", chg |-> 0]
                      ELSE IF id % 4 = 1 THEN [st |-> "null", chg |-> 0]
                      ELSE NumRow(id)] }

\* a list of n distinct codes followed by d of them once more
CodeList(n, d) == [i \in 1..(n + d) |-> IF i <= n THEN i ELSE i - n]

\* list(set(stock_codes)): the distinct codes, in an order that the list does
\* not decide (ascending from the r-th code on, then wrapping round)
unique_codes(codes, r) ==
    LET n == Cardinality({codes[i] : i \in DOMAIN codes})
    IN  [i \in 1..n |-> ((i + r - 1) % n) + 1]

\* a slice that runs one code into the next batch
batch_over(uc, i) == SubSeq(uc, i + 1, Min(i + BATCH_SIZE + 1, Len(uc)))

\* unique_codes[i:i + batch_size]
batch(uc, i) == SubSeq(uc, i + 1, Min(i + BATCH_SIZE, Len(uc)))

\* range(0, len(unique_codes), batch_size), as the number of batches
BatchCount(uc) == (Len(uc) + BATCH_SIZE - 1) \div BATCH_SIZE

\* the batches in the order in which they are requested
Batches(uc) == [k \in 1..BatchCount(uc) |-> batch(uc, (k - 1) * BATCH_SIZE)]

\* float(change_pct), or 0.0 when that raises ValueError or TypeError
ChangeOf(row) == IF row.st = "num" THEN row.chg ELSE 0

\* quotes after every answered row of every batch has been stored
MergedQuotes(bs, feed) ==
    LET answered == {id \in Ids : /\ \E k \in DOMAIN bs : \E j \in DOMAIN bs[k] : bs[k][j] = id
                                  /\ feed[id].st # "absent"}
    IN  [id \in answered |-> ChangeOf(feed[id])]

\* the calls: a list of n distinct codes, d of them twice, and the order r in
\* which the set of the codes is listed
Calls ==
    {[op |-> "call", codes |-> CodeList(nd[1], nd[2]), order |-> r] :
        nd \in {x \in (0..MaxIds) \X (0..MaxDup) : x[2] <= x[1]}, r \in 0..1}

BatchInit ==
    /\ app = "main"
    /\ clk = 1
    /\ up \in {[quote |-> feed] : feed \in QuoteFeeds}
    /\ cache = Empty
    /\ lru = Empty
    /\ holdings = Empty
    /\ req \in Calls
    /\ out = [requests |-> << >>, quotes |-> Empty]

\* _get_stock_realtime_quotes(stock_codes)
GetQuotes ==
    /\ req.op = "call"
    /\ req' = [req EXCEPT !.op = "quotes"]
    /\ \E bs \in {IF req.codes = << >> THEN << >>
                  ELSE Batches(unique_codes(req.codes, req.order))} :
        out' = [requests |-> bs, quotes |-> MergedQuotes(bs, up.quote)]
    /\ UNCHANGED <<app, clk, up, cache, lru, holdings>>

BatchNext == GetQuotes

BatchSpec == BatchInit /\ [][BatchNext]_vars

\* the distinct codes of the last call
Requested == {req.codes[i] : i \in DOMAIN req.codes}

\* C19: the distinct codes of a call are split into batches of at most
\* BATCH_SIZE codes, exactly ceil(n / BATCH_SIZE) requests are sent for n
\* distinct codes, and every requested code is in exactly one batch, which
\* holds requested codes only.
C19_Batches ==
    req.op = "quotes" =>
        /\ Len(out.requests) * BATCH_SIZE >= Cardinality(Requested)
        /\ (Len(out.requests) - 1) * BATCH_SIZE < Cardinality(Requested)
        /\ Len(out.requests) >= 0
        /\ \A k \in DOMAIN out.requests :
            /\ Len(out.requests[k]) \in 1..BATCH_SIZE
            /\ \A j \in DOMAIN out.requests[k] : out.requests[k][j] \in Requested
        /\ \A id \in Requested :
            Cardinality({kj \in {<<k, j>> : k \in DOMAIN out.requests, j \in 1..BATCH_SIZE} :
                            /\ kj[2] <= Len(out.requests[kj[1]])
                            /\ out.requests[kj[1]][kj[2]] = id}) = 1

\* a list of 87 codes, 85 of them distinct, has been sent in 3 requests
C19_Witness ==
    /\ req.op = "quotes"
    /\ Len(req.codes) = 87
    /\ Cardinality(Requested) = 85
    /\ Len(out.requests) = 3
    /\ Len(out.requests[3]) = 25

\* C20: the merged quotes have an entry for a code only if the provider's
\* answer carries a numeric change for it, and the entry is that change; a
\* code with no row, or with a null or '-' change, has no entry and is never
\* given the value 0.
C20_UsableQuotesOnly ==
    req.op = "quotes" =>
        \A id \in DOMAIN out.quotes :
            /\ up.quote[id].st = "num"
            /\ out.quotes[id] = up.quote[id].chg

\* the snapshot the backend computes for one fund at the instant of the last
\* request when it has nothing stored
ComputedNow(f) == batch_estimate(<<f>>, At, Empty, Empty, up).list[1]

\* C21: every snapshot the backend returns is the one computed at this
\* request from the phase and the provider data of this request; a snapshot
\* computed by an earlier request is never returned to a later one.
C21_ComputedPerRequest ==
    app = "backend" =>
        \A i \in DOMAIN out.list : out.list[i] = ComputedNow(out.list[i].fundcode)

(***************************************************************************)
(* The two servers over a day and more, for what they keep of the holdings *)
(* they fetch: requests at instants more than CACHE_TTL apart, of which    *)
(* the third is less and the fourth more than 24 hours after the first.    *)
(* clk is the index of the instant.                                        *)
(***************************************************************************)
HoldInstants ==
    << 7 * DAY + 14 * 3600 + 58 * 60,
       7 * DAY + 15 * 3600 + 10 * 60,
       8 * DAY + 14 * 3600 + 57 * 60,
       8 * DAY + 15 * 3600 >>

HoldNow(k) == HoldInstants[k]

HoldInit ==
    /\ app \in {"main", "backend"}
    /\ clk = 1
    /\ up \in {World(p1, Profile2, q) : p1 \in HoldProfiles, q \in QuoteMaps}
    /\ cache = Empty
    /\ lru = Empty
    /\ holdings = Empty
    /\ req = NoRequest
    /\ out = [raised |-> FALSE, list |-> << >>]

\* time passes
HoldTick ==
    /\ clk < Len(HoldInstants)
    /\ clk' = clk + 1
    /\ UNCHANGED <<app, up, cache, lru, holdings, req, out>>

\* src/main.py GET /api/estimate/{code}
HoldSingle(code) ==
    /\ app = "main"
    /\ \E r \in {_process_single_fund_estimate(code, HoldNow(clk), holdings, up)} :
        /\ req' = [op |-> "single", codes |-> <<code>>, at |-> clk, missing |-> <<code>>,
                   calc |-> IF r.calc THEN <<code>> ELSE << >>]
        /\ out' = [raised |-> r.raised, list |-> IF r.raised THEN << >> ELSE <<r.data>>]
        /\ holdings' = r.hc
        /\ UNCHANGED <<app, clk, up, cache, lru>>

\* src/main.py POST /api/estimate/batch
HoldBatchMain(codes) ==
    /\ app = "main"
    /\ \E r \in {get_batch_estimate(codes, HoldNow(clk), holdings, up)} :
        /\ req' = [op |-> "batch", codes |-> codes, at |-> clk, missing |-> codes,
                   calc |-> r.calc]
        /\ out' = [raised |-> r.raised, list |-> r.list]
        /\ holdings' = r.hc
        /\ UNCHANGED <<app, clk, up, cache, lru>>

\* src/backend/main.py POST /api/estimate/batch
HoldBatchBackend(codes) ==
    /\ app = "backend"
    /\ \E r \in {batch_estimate(codes, HoldNow(clk), cache, lru, up)} :
        /\ req' = [op |-> "batch", codes |-> codes, at |-> clk, missing |-> r.missing,
                   calc |-> r.calc]
        /\ out' = [raised |-> FALSE, list |-> r.list]
        /\ cache' = r.cache
        /\ lru' = r.memo
        /\ UNCHANGED <<app, clk, up, holdings>>

HoldNext ==
    \/ HoldTick
    \/ \E code \in Funds : HoldSingle(code)
    \/ \E codes \in BatchLists : HoldBatchMain(codes)
    \/ \E codes \in BatchLists : HoldBatchBackend(codes)

HoldSpec == HoldInit /\ [][HoldNext]_vars

\* the holdings a server has stored, by fund: [data, time]
StoredHoldings(c, hc) ==
    IF app = "backend"
    THEN [f \in {g \in Funds : HoldKey(g) \in DOMAIN c} |-> c[HoldKey(f)]]
    ELSE hc

\* C22: once the holdings of a fund are fetched and stored, no request served
\* less than 24 hours after the fetch fetches them again, whatever the fetch
\* returned (an empty list included): a fetch stores its result with the time
\* of the fetch, so the stored entry stays as it is.
C22_HoldingsFetchedOnce ==
    [][\A f \in DOMAIN StoredHoldings(cache, holdings) :
          HoldNow(clk') - StoredHoldings(cache, holdings)[f].time < DAY =>
              /\ f \in DOMAIN StoredHoldings(cache', holdings')
              /\ StoredHoldings(cache', holdings')[f] = StoredHoldings(cache, holdings)[f]]_vars

(***************************************************************************)
(* The holdings fetch of the two servers on its own:                       *)
(* _get_fund_holdings_internal_sync of src/main.py and fetch_holdings_sync *)
(* of src/backend/main.py.  The provider answers a query for one year with *)
(* a table of rows, each of a reporting period (a year and a quarter 1..4, *)
(* or 5 for an annual report).  req is the call with the tables of the     *)
(* current year and the two years before, out the list returned.  A stock  *)
(* code is of one period only, so a returned row tells its period.         *)
(***************************************************************************)
MaxRows == 12
TOP == 10
ThisYear == 2024

Period(y, q) == [year |-> y, q |-> q]

\* n rows of one period; the weights are all different and not in order, and
\* the second is no number
PeriodRows(p, n) ==
    [j \in 1..n |-> [quarter |-> p,
                     code |-> ((p.year % 10) * 10 + p.q) * 100 + j,
                     percent |-> IF j = 2 THEN BadT ELSE NumT(((j * 7) % 13) * 100 + p.q)]]

\* the tables the provider may hold for a year, with n rows for the year's
\* largest period: periods listed latest first, earliest first, or, for a year
\* before this one, with a period of the year after it
YearTables(y, n) ==
    { << >>,
      PeriodRows(Period(y, 1), n),
      PeriodRows(Period(y, 2), 3) \o PeriodRows(Period(y, 1), n),
      PeriodRows(Period(y, 1), n) \o PeriodRows(Period(y, 2), 3) }
    \cup (IF y < ThisYear
          THEN { PeriodRows(Period(y, 5), 2) \o PeriodRows(Period(y, 4), n),
                 PeriodRows(Period(y, 4), n) \o PeriodRows(Period(y + 1, 1), 3) }
          ELSE {})

\* pd.to_numeric(..., errors='coerce').fillna(0)
ToNumeric(x) == IF x.num THEN x.v ELSE 0

\* row r with key k put into rows sorted on the key descending, before the
\* rows of an equal key
RECURSIVE InsertDesc(_, _, _)
InsertDesc(r, k, sorted) ==
    IF sorted = << >> THEN <<[row |-> r, key |-> k]>>
    ELSE IF Head(sorted).key > k THEN <<Head(sorted)>> \o InsertDesc(r, k, Tail(sorted))
    ELSE <<[row |-> r, key |-> k]>> \o sorted

\* sort_values(ascending=False) of rows with their keys, which keeps the order
\* of equal keys
RECURSIVE SortDesc(_)
SortDesc(keyed) ==
    IF keyed = << >> THEN << >>
    ELSE InsertDesc(Head(keyed).row, Head(keyed).key, SortDesc(Tail(keyed)))

\* head(10)
HeadRows(rows) == SubSeq(rows, 1, IF Len(rows) < TOP THEN Len(rows) ELSE TOP)

\* the rows of a table that satisfy a test, in the table's order
RECURSIVE RowsOf(_, _)
RowsOf(rows, keep) ==
    IF rows = << >> THEN << >>
    ELSE (IF Head(rows).quarter \in keep THEN <<Head(rows)>> ELSE << >>) \o RowsOf(Tail(rows), keep)

\* {"code", "percent"} of the rows
AsHoldings(rows) == [i \in DOMAIN rows |-> [code |-> rows[i].code, percent |-> ToNumeric(rows[i].percent)]]

\* src/main.py: the first year with a table, the period of its first row, the
\* 10 largest weights of that period
_get_fund_holdings_internal_sync(years) ==
    LET portfolio_df == IF years[1] # << >> THEN years[1]
                        ELSE IF years[2] # << >> THEN years[2] ELSE years[3]
    IN  IF portfolio_df = << >> THEN << >>
        ELSE LET latest_df == RowsOf(portfolio_df, {portfolio_df[1].quarter})
                 keyed == [i \in DOMAIN latest_df |->
                             [row |-> latest_df[i], key |-> ToNumeric(latest_df[i].percent)]]
                 sorted == SortDesc(keyed)
             IN  AsHoldings(HeadRows([i \in DOMAIN sorted |-> sorted[i].row]))

\* parse_rank: the year and the quarter of the period's label, 5 for 年报
parse_rank(p) == p.year * 100 + p.q

\* src/backend/main.py: the tables of this year and the year before together,
\* sorted by rank and then weight, the 10 first rows of the highest rank
fetch_holdings_sync(years) ==
    LET combined_df == years[1] \o years[2]
    IN  IF combined_df = << >> THEN << >>
        ELSE LET byWeight == SortDesc([i \in DOMAIN combined_df |->
                             [row |-> combined_df[i],
                              key |-> ToNumeric(combined_df[i].percent)]])
                 sorted == SortDesc([i \in DOMAIN byWeight |->
                             [row |-> byWeight[i].row,
                              key |-> parse_rank(byWeight[i].row.quarter)]])
                 sorted_df == [i \in DOMAIN sorted |-> sorted[i].row]
                 latest_rank == parse_rank(sorted_df[1].quarter)
                 same == {combined_df[i].quarter : i \in DOMAIN combined_df}
             IN  AsHoldings(HeadRows(RowsOf(sorted_df,
                     {q \in same : parse_rank(q) = latest_rank})))

\* the calls: the tables of this year and of the two years before
HoldingsCalls ==
    {[op |-> "call", years |-> <<t1, t2, t3>>] :
        t1 \in UNION {YearTables(ThisYear, n) : n \in {3, MaxRows}},
        t2 \in UNION {YearTables(ThisYear - 1, n) : n \in {3, MaxRows}},
        t3 \in {<< >>, PeriodRows(Period(ThisYear - 2, 4), 3)}}

FetchInit ==
    /\ app \in {"main", "backend"}
    /\ clk = 1
    /\ up = World(Profile2, Profile2, AllQuoted)
    /\ cache = Empty
    /\ lru = Empty
    /\ holdings = Empty
    /\ req \in HoldingsCalls
    /\ out = [list |-> << >>]

\* src/main.py: _get_fund_holdings_internal_sync(code)
FetchMain ==
    /\ app = "main"
    /\ req.op = "call"
    /\ req' = [req EXCEPT !.op = "holdings"]
    /\ out' = [list |-> _get_fund_holdings_internal_sync(req.years)]
    /\ UNCHANGED <<app, clk, up, cache, lru, holdings>>

\* src/backend/main.py: AkshareService.fetch_holdings_sync(code)
FetchBackend ==
    /\ app = "backend"
    /\ req.op = "call"
    /\ req' = [req EXCEPT !.op = "holdings"]
    /\ out' = [list |-> fetch_holdings_sync(req.years)]
    /\ UNCHANGED <<app, clk, up, cache, lru, holdings>>

FetchNext == FetchMain \/ FetchBackend

FetchSpec == FetchInit /\ [][FetchNext]_vars

\* the tables of the years a server queries: src/main.py stops at the first
\* year that has a table, src/backend/main.py asks for two years
Queried ==
    IF app = "backend" THEN req.years[1] \o req.years[2]
    ELSE IF req.years[1] # << >> THEN req.years[1]
    ELSE IF req.years[2] # << >> THEN req.years[2] ELSE req.years[3]

\* the periods disclosed in the queried years, and the period of a stock code
Disclosed == {Queried[i].quarter : i \in DOMAIN Queried}
PeriodOf(code) == Queried[CHOOSE i \in DOMAIN Queried : Queried[i].code = code].quarter

\* p is as recent as q
AsRecent(p, q) == p.year > q.year \/ (p.year = q.year /\ p.q >= q.q)

\* C23: the holdings list has at most 10 entries, in descending order of
\* weight, all of one reporting period, the most recent of the periods
\* disclosed in the queried years, in whatever order and in whichever year's
\* table the provider lists the periods.
C23_LatestPeriodTopTen ==
    req.op = "holdings" =>
        /\ Len(out.list) <= TOP
        /\ \A i \in 1..(Len(out.list) - 1) : out.list[i].percent >= out.list[i + 1].percent
        /\ \A i \in DOMAIN out.list :
            /\ \E j \in DOMAIN Queried : Queried[j].code = out.list[i].code
            /\ \A q \in Disclosed : AsRecent(PeriodOf(out.list[i].code), q)

(***************************************************************************)
(* The market clock of the two servers on its own: _get_time_phase of      *)
(* src/main.py and AkshareService.get_time_phase of src/backend/main.py.   *)
(* req is the call with the exchange-local time it is made at (at, in      *)
(* seconds; day 7 is a Monday), out the phase returned.                    *)
(***************************************************************************)
ClockTimes ==
    {0, Clock(9, 15) - 1, Clock(9, 15), Clock(9, 30) - 1, Clock(9, 30),
     Clock(11, 30) - 1, Clock(11, 30), Clock(13, 0) - 1, Clock(13, 0),
     Clock(15, 0) - 1, Clock(15, 0), Clock(15, 0) + 1, DAY - 1}

ClockInit ==
    /\ app \in {"main", "backend"}
    /\ clk = 1
    /\ up = World(Profile2, Profile2, AllQuoted)
    /\ cache = Empty
    /\ lru = Empty
    /\ holdings = Empty
    /\ req \in {[op |-> "call", at |-> d * DAY + t] : d \in 7..13, t \in ClockTimes}
    /\ out = [phase |-> "none"]

\* src/main.py: _get_time_phase()
PhaseMain ==
    /\ app = "main"
    /\ req.op = "call"
    /\ req' = [req EXCEPT !.op = "phase"]
    /\ out' = [phase |-> _get_time_phase(req.at)]
    /\ UNCHANGED <<app, clk, up, cache, lru, holdings>>

\* src/backend/main.py: AkshareService.get_time_phase()
PhaseBackend ==
    /\ app = "backend"
    /\ req.op = "call"
    /\ req' = [req EXCEPT !.op = "phase"]
    /\ out' = [phase |-> get_time_phase(req.at)]
    /\ UNCHANGED <<app, clk, up, cache, lru, holdings>>

ClockNext == PhaseMain \/ PhaseBackend

ClockSpec == ClockInit /\ [][ClockNext]_vars

\* the session open each server uses: 09:30 in src/main.py, 09:15 in
\* src/backend/main.py
SessionOpen == IF app = "main" THEN Clock(9, 30) ELSE Clock(9, 15)

\* C24: a time on Saturday or Sunday is WEEKEND; on a weekday a time before
\* the session open is PRE_MARKET, a time from the open up to 11:30 or from
\* 13:00 up to 15:00 is MARKET, a time in [11:30, 13:00) is LUNCH_BREAK and a
\* time after 15:00 is POST_MARKET.
C24_PhaseOfTimestamp ==
    req.op = "phase" =>
        out.phase =
            (IF DayOf(req.at) % 7 \in {5, 6} THEN "WEEKEND"
             ELSE IF TimeOfDay(req.at) < SessionOpen THEN "PRE_MARKET"
             ELSE IF TimeOfDay(req.at) < Clock(11, 30) THEN "MARKET"
             ELSE IF TimeOfDay(req.at) < Clock(13, 0) THEN "LUNCH_BREAK"
             ELSE IF TimeOfDay(req.at) <= Clock(15, 0) THEN "MARKET"
             ELSE "POST_MARKET")

\* the tier that is the first to apply to a fund at the last request:
\* confirmed history, the daily NAV map, the fund's own quote, the feed
ByHistory(f) ==
    /\ HistOf(f) # << >>
    /\ Last(HistOf(f)).nav > 0
    /\ \/ Last(HistOf(f)).date = TodayAt
       \/ FeedOf(f).ok /\ FeedOf(f).jzrq # 0 /\ Last(HistOf(f)).date > FeedOf(f).jzrq
ByDaily(f) == ~ByHistory(f) /\ PhaseAt = "POST_MARKET" /\ up.fund[f].daily.listed
ByEtf(f) == ~ByHistory(f) /\ ~ByDaily(f) /\ up.fund[f].etf.listed /\ up.fund[f].etf.price > 0
ByFeed(f) == ~ByHistory(f) /\ ~ByDaily(f) /\ ~ByEtf(f) /\ FeedOf(f).ok

\* C25: in src/backend/main.py the tiers of a freshly resolved fund apply in
\* priority order and a higher tier's result is never overwritten: the
\* snapshot is history's exactly when history applies, the daily map's
\* exactly when the phase is POST_MARKET and history did not apply, the own
\* quote's exactly when neither did, the feed's exactly when none of those
\* did, and the holdings calculation runs only for funds that none resolved.
C25_TierPriority ==
    \A i \in DOMAIN out.list :
        LET s == out.list[i]
            f == out.list[i].fundcode
        IN  (app = "backend" /\ f \in Fresh) =>
                /\ s.source = "official_history_ak" <=> ByHistory(f)
                /\ ByHistory(f) => s.gsz = NumT(Last(HistOf(f)).nav) /\ s.jzrq = Last(HistOf(f)).date
                /\ s.source = "official_daily_em" <=> ByDaily(f)
                /\ ByDaily(f) => s.gsz = NumT(up.fund[f].daily.nav) /\ s.jzrq = TodayAt
                /\ s.source \in LiveSources <=> ByEtf(f)
                /\ ByEtf(f) => s.gsz = NumT(up.fund[f].etf.price)
                /\ s.source = "official_realtime" <=> ByFeed(f)
                /\ ByFeed(f) => s.gsz = FeedOf(f).gsz /\ s.gszzl = FeedOf(f).gszzl
                /\ (s.source \in HoldingsSources \/ f \in Calculated) =>
                      ~(ByHistory(f) \/ ByDaily(f) \/ ByEtf(f) \/ ByFeed(f))

\* after the close a fund that history, the daily map and its own quote could
\* all resolve has been resolved by history
C25_Witness ==
    /\ app = "backend"
    /\ PhaseAt = "POST_MARKET"
    /\ \E i \in DOMAIN out.list :
        /\ out.list[i].fundcode \in Fresh
        /\ ByHistory(out.list[i].fundcode)
        /\ up.fund[out.list[i].fundcode].daily.listed
        /\ up.fund[out.list[i].fundcode].etf.price > 0
        /\ out.list[i].source = "official_history_ak"

(***************************************************************************)
(* The external calls of one batch request, fund by fund: the feed fetch   *)
(* and then the history fetch of every fund.  src/main.py makes them in    *)
(* two loops over the codes, one call at a time; src/backend/main.py hands *)
(* them to the executor's worker pool, one coroutine per fund.  A call     *)
(* that has started ends when its provider answers or times out, which may *)
(* be late.  req is the request, out the stage of every fund's calls.      *)
(***************************************************************************)
MaxWorkers == 2
PoolFunds == <<"F1", "F2", "F3">>

PoolInit ==
    /\ app \in {"main", "backend"}
    /\ clk = 1
    /\ up = World(Profile2, Profile2, AllQuoted)
    /\ cache = Empty
    /\ lru = Empty
    /\ holdings = Empty
    /\ req \in {[op |-> "batch", codes |-> SubSeq(PoolFunds, 1, n)] : n \in 1..Len(PoolFunds)}
    /\ out = [f \in Range(req.codes) |-> [stage |-> "feed_wait", feed |-> "none"]]

\* the funds with a call under way
InFlight == {f \in DOMAIN out : out[f].stage \in {"feed_run", "hist_run"}}

\* the codes before f in the request
Before(f) == {req.codes[i] : i \in {j \in DOMAIN req.codes : \E k \in DOMAIN req.codes : j < k /\ req.codes[k] = f}}

\* src/main.py: the first loop calls requests.get for one code after the other
MainFeedTurn(f) ==
    /\ InFlight = {}
    /\ \A g \in Before(f) : out[g].stage # "feed_wait"

\* src/main.py: the second loop awaits the history of one code after the
\* other, once the first loop is over
MainHistTurn(f) ==
    /\ InFlight = {}
    /\ \A g \in DOMAIN out : out[g].stage # "feed_wait"
    /\ \A g \in Before(f) : out[g].stage = "done"

\* src/backend/main.py: run_in_executor runs the call when a worker is free
WorkerFree == Cardinality(InFlight) < MaxWorkers

\* the feed fetch of f starts
StartFeed(f) ==
    /\ f \in DOMAIN out
    /\ out[f].stage = "feed_wait"
    /\ IF app = "main" THEN MainFeedTurn(f) ELSE WorkerFree
    /\ out' = [out EXCEPT ![f].stage = "feed_run"]
    /\ UNCHANGED <<app, clk, up, cache, lru, holdings, req>>

\* the feed fetch of f ends, with an answer or with a timeout
EndFeed(f, answer) ==
    /\ f \in DOMAIN out
    /\ out[f].stage = "feed_run"
    /\ out' = [out EXCEPT ![f] = [stage |-> "hist_wait", feed |-> answer]]
    /\ UNCHANGED <<app, clk, up, cache, lru, holdings, req>>

\* the history fetch of f starts
StartHist(f) ==
    /\ f \in DOMAIN out
    /\ out[f].stage = "hist_wait"
    /\ IF app = "main" THEN MainHistTurn(f) ELSE WorkerFree
    /\ out' = [out EXCEPT ![f].stage = "hist_run"]
    /\ UNCHANGED <<app, clk, up, cache, lru, holdings, req>>

\* the history fetch of f ends
EndHist(f) ==
    /\ f \in DOMAIN out
    /\ out[f].stage = "hist_run"
    /\ out' = [out EXCEPT ![f].stage = "done"]
    /\ UNCHANGED <<app, clk, up, cache, lru, holdings, req>>

PoolNext ==
    \/ \E f \in Range(PoolFunds) : StartFeed(f)
    \/ \E f \in Range(PoolFunds), answer \in {"ok", "timeout"} : EndFeed(f, answer)
    \/ \E f \in Range(PoolFunds) : StartHist(f)
    \/ \E f \in Range(PoolFunds) : EndHist(f)

PoolSpec == PoolInit /\ [][PoolNext]_vars

\* C26: the calls in flight are never more than the worker pool holds, and
\* while another fund's call is still under way and a worker is free, the
\* next call of a fund (its feed fetch, or its history fetch once its feed
\* fetch is over) can start: a slow call of one fund does not hold up the
\* start of another fund's calls.
C26_IndependentFetches ==
    /\ Cardinality(InFlight) <= MaxWorkers
    /\ \A f \in DOMAIN out :
        (InFlight # {} /\ WorkerFree) =>
            /\ out[f].stage = "feed_wait" => ENABLED StartFeed(f)
            /\ out[f].stage = "hist_wait" => ENABLED StartHist(f)

(***************************************************************************)
(* The official feed fetch of the two servers on its own:                  *)
(* fetch_realtime_estimate_direct_sync of src/backend/main.py and the      *)
(* first step of _process_single_fund_estimate of src/main.py.  req is the *)
(* call with the fund id and the provider's response, out the record the   *)
(* fetch leaves and whether it raised.                                     *)
(***************************************************************************)

\* what json.loads gives for the text in the jsonpgz(...) wrapper: a record of
\* the feed, a value that is empty (null, 0, "", {}), a number, a string, or
\* a list whose items are [key, value] pairs or, where pair is FALSE, not
Payloads ==
    {[t |-> "record", fields |-> fd, items |-> << >>] : fd \in {FeedEst, FeedFlat, FeedBlank}}
    \cup {[t |-> k, fields |-> FeedDown, items |-> << >>] : k \in {"empty", "number", "string"}}
    \cup {[t |-> "list", fields |-> FeedDown, items |-> its] :
            its \in { << [pair |-> TRUE, val |-> NumT(10500)] >>,
                      << [pair |-> TRUE, val |-> NumT(10500)], [pair |-> FALSE, val |-> BadT] >>,
                      << [pair |-> FALSE, val |-> BadT], [pair |-> TRUE, val |-> NumT(10500)] >> }}

\* the provider's response: none in time, a status, and a body with or
\* without the wrapper, whose text is JSON or not
NoPayload == [t |-> "empty", fields |-> FeedDown, items |-> << >>]
Responses ==
    {[kind |-> "timeout", status |-> 0, payload |-> NoPayload]}
    \cup {[kind |-> k, status |-> st, payload |-> NoPayload] :
            k \in {"nowrapper", "badjson"}, st \in {200, 404, 500}}
    \cup {[kind |-> "json", status |-> st, payload |-> pl] : st \in {200, 404, 500}, pl \in Payloads}

\* data.update(fetched) for a list: the ["gsz", value] pairs are stored one
\* after the other until an item that is no pair raises
RECURSIVE UpdateItems(_, _)
UpdateItems(data, items) ==
    IF items = << >> THEN [raised |-> FALSE, data |-> data]
    ELSE IF ~Head(items).pair THEN [raised |-> TRUE, data |-> data]
    ELSE UpdateItems([data EXCEPT !.gsz = Head(items).val], Tail(items))

\* if fetched: data.update(fetched), which raises for a number and, at its
\* first character, for a string
UpdateFetched(data, pl) ==
    IF pl.t = "empty" THEN [raised |-> FALSE, data |-> data, done |-> FALSE]
    ELSE IF pl.t = "record" THEN [raised |-> FALSE, data |-> Update(data, pl.fields), done |-> TRUE]
    ELSE IF pl.t = "list"
    THEN [raised |-> UpdateItems(data, pl.items).raised,
          data |-> UpdateItems(data, pl.items).data,
          done |-> ~UpdateItems(data, pl.items).raised]
    ELSE [raised |-> TRUE, data |-> data, done |-> FALSE]

\* src/backend/main.py: the record after the try block, whose except passes
DirectSync(code, resp) ==
    LET data == Snapshot(code, "", NumT(0), NumT(0), NumT(0), 0, "none", "")
    IN  IF resp.kind # "json" \/ resp.status # 200 THEN data
        ELSE LET r == UpdateFetched(data, resp.payload)
             IN  IF r.done THEN [r.data EXCEPT !.source = "official_realtime"] ELSE r.data

\* src/main.py: the record after the try block, whose except passes; the
\* status of the response is not looked at
MainFeedStep(code, resp) ==
    LET data == Snapshot(code, "", NumT(0), NumT(0), NumT(0), 0, "official", "")
    IN  IF resp.kind # "json" THEN data
        ELSE UpdateFetched(data, resp.payload).data

FeedInit ==
    /\ app \in {"main", "backend"}
    /\ clk = 1
    /\ up = World(Profile2, Profile2, AllQuoted)
    /\ cache = Empty
    /\ lru = Empty
    /\ holdings = Empty
    /\ req \in {[op |-> "call", code |-> f, response |-> resp] : f \in Funds, resp \in Responses}
    /\ out = [raised |-> FALSE, data |-> Snapshot("", "", NumT(0), NumT(0), NumT(0), 0, "", "")]

\* src/main.py: step 1 of _process_single_fund_estimate
FeedMain ==
    /\ app = "main"
    /\ req.op = "call"
    /\ req' = [req EXCEPT !.op = "fetched"]
    /\ out' = [raised |-> FALSE, data |-> MainFeedStep(req.code, req.response)]
    /\ UNCHANGED <<app, clk, up, cache, lru, holdings>>

\* src/backend/main.py: fetch_realtime_estimate_direct_sync(code)
FeedBackend ==
    /\ app = "backend"
    /\ req.op = "call"
    /\ req' = [req EXCEPT !.op = "fetched"]
    /\ out' = [raised |-> FALSE, data |-> DirectSync(req.code, req.response)]
    /\ UNCHANGED <<app, clk, up, cache, lru, holdings>>

FeedNext == FeedMain \/ FeedBackend

FeedSpec == FeedInit /\ [][FeedNext]_vars

\* the response is a failure: no answer in time, a status other than 200, a
\* body without the wrapper, invalid JSON, or a payload that is no record
Failure(resp) ==
    \/ resp.kind # "json"
    \/ resp.status # 200
    \/ resp.payload.t # "record"

\* C27: the feed fetch never raises, and on any failure it leaves the default
\* record of the requested fund: zero estimate fields, nothing of the
\* response in it, and a source that is the tag of no resolved tier.
C27_FeedFailureIsDefault ==
    req.op = "fetched" =>
        /\ ~out.raised
        /\ Failure(req.response) =>
            /\ out.data.fundcode = req.code
            /\ out.data.gsz = NumT(0) /\ out.data.gszzl = NumT(0) /\ out.data.dwjz = NumT(0)
            /\ out.data.jzrq = 0 /\ out.data.name = ""
            /\ out.data.source \notin OfficialSources \cup LiveSources \cup HoldingsSources

\* the entry of key is valid for a reader with this ttl
ValidFor(c, key, ttl, t) == CacheService_get(c, key, ttl, t).hit

\* C28 as stated: an entry's validity for a reader depends on the time of
\* the last set and the reader's ttl alone: a get by any consumer, with
\* whatever ttl, leaves every entry that is valid for a reader valid.
C28_ReadsDoNotInvalidate ==
    [][\A k \in Keys, t \in Ttls :
          ServiceGet(k, t) =>
              \A key \in Keys, ttl \in Ttls \ {0} :
                  ValidFor(cache, key, ttl, clk) => ValidFor(cache', key, ttl, clk')]_vars

\* C28 amended: a get leaves every entry that is valid for a reader valid,
\* except the entry of its own key when it finds that entry expired under
\* its own ttl: that entry is then absent for every reader until the next
\* set of the key.
C28_ReadsInvalidateOnlyExpired ==
    [][\A k \in Keys, t \in Ttls :
          ServiceGet(k, t) =>
              \A key \in Keys, ttl \in Ttls \ {0} :
                  ValidFor(cache, key, ttl, clk) =>
                      \/ ValidFor(cache', key, ttl, clk')
                      \/ /\ key = k
                         /\ t > 0
                         /\ clk - cache[key].time >= t
                         /\ key \notin DOMAIN cache']_vars

\* a reader's get within its ttl of the last set has found the entry gone,
\* after a get with a shorter ttl had found it expired
C28_Witness ==
    /\ app = "backend"
    /\ WithinTtl
    /\ req.key \in req.expired
    /\ out = Absent

\* the last call was a get with ttl = 0 of a key that has been set and that
\* no expired read has evicted since
ReadForever ==
    /\ app = "backend"
    /\ req.op = "get"
    /\ req.ttl = 0
    /\ req.key \in DOMAIN req.sets
    /\ req.key \notin req.expired

\* C29: a get with ttl = 0 returns the stored value of its key whatever the
\* age of the entry, and leaves the entry in the store.
C29_ZeroTtlNeverExpires ==
    ReadForever =>
        /\ out = [hit |-> TRUE, data |-> req.sets[req.key].data]
        /\ req.key \in DOMAIN cache
        /\ cache[req.key] = req.sets[req.key]

\* a get with ttl = 0 has returned an entry that is a day old or older
C29_Witness ==
    /\ ReadForever
    /\ req.at - req.sets[req.key].time >= DAY
    /\ out.hit
    /\ req.key \in DOMAIN cache

\* the confirmed NAV of the fund is positive and either dated the day of the
\* request or dated after a non-empty NAV date reported by the feed
HistoryIsOfficial(f) ==
    /\ HistOf(f) # << >>
    /\ Last(HistOf(f)).nav > 0
    /\ \/ Last(HistOf(f)).date = TodayAt
       \/ /\ FeedOf(f).ok
          /\ FeedOf(f).jzrq # 0
          /\ FeedOf(f).jzrq < Last(HistOf(f)).date

\* the snapshot's NAV, estimated value, NAV date and change are history's
FromHistory(s, f) ==
    /\ s.dwjz = NumT(Last(HistOf(f)).nav)
    /\ s.gsz = NumT(Last(HistOf(f)).nav)
    /\ s.jzrq = Last(HistOf(f)).date
    /\ s.gszzl = ConfirmedChange(HistOf(f))

\* the snapshot's NAV and NAV date are the daily map's when the request reads
\* that map and lists the fund, and otherwise those of the feed record
NavNotFromHistory(s, f) ==
    IF PhaseAt = "POST_MARKET" /\ up.fund[f].daily.listed
    THEN s.dwjz = NumT(up.fund[f].daily.nav) /\ s.jzrq = TodayAt
    ELSE /\ s.dwjz = fetch_realtime_estimate_direct_sync(f, up).dwjz
         /\ s.jzrq = fetch_realtime_estimate_direct_sync(f, up).jzrq

\* C30: in the batch estimate of src/backend/main.py confirmed history is the
\* official result of a freshly resolved fund exactly when the confirmed NAV
\* is positive and is either dated today or dated after the non-empty NAV
\* date of the feed; then NAV, estimated value, NAV date and change are all
\* history's and no estimation tier runs; in every other case the NAV and the
\* NAV date of the snapshot are not history's but the daily map's or the
\* feed record's.
C30_HistoryReplacesFeed ==
    \A i \in DOMAIN out.list :
        LET s == out.list[i]
            f == out.list[i].fundcode
        IN  (app = "backend" /\ f \in Fresh) =>
                IF HistoryIsOfficial(f)
                THEN /\ s.source = "official_history_ak"
                     /\ FromHistory(s, f)
                     /\ f \notin Calculated
                ELSE /\ s.source # "official_history_ak"
                     /\ NavNotFromHistory(s, f)

\* history dated after the feed's NAV date, not today, has replaced a feed
\* record that carried an estimate
C30_Witness ==
    /\ app = "backend"
    /\ \E i \in DOMAIN out.list :
        LET f == out.list[i].fundcode
        IN  /\ f \in Fresh
            /\ HistoryIsOfficial(f)
            /\ Last(HistOf(f)).date # TodayAt
            /\ FeedOf(f).ok
            /\ FeedOf(f).gsz # NumT(Last(HistOf(f)).nav)
            /\ out.list[i].source = "official_history_ak"
            /\ out.list[i].gsz = NumT(Last(HistOf(f)).nav)

\* the snapshots stored in the result cache
StoredSnapshots == {cache[EstKey(f)].data : f \in {g \in Funds : EstKey(g) \in DOMAIN cache}}

\* C31: no snapshot returned to a caller or stored in the result cache
\* carries an internal working field (a key that starts with an underscore).
C31_NoInternalFields ==
    /\ \A i \in DOMAIN out.list : out.list[i].internal = {}
    /\ \A s \in StoredSnapshots : s.internal = {}

\* neither the history nor the feed supplies a positive confirmed NAV
NoConfirmedNav(f) ==
    /\ HistOf(f) = << >> \/ ~(Last(HistOf(f)).nav > 0)
    /\ ~(FeedNav(f) > 0)

\* the snapshot's estimated value is one a provider supplied as it is: the
\* feed's estimate, the fund's own quote or the daily map's NAV
SuppliedEstimate(s, f) ==
    \/ FeedOf(f).ok /\ s.gsz = FeedOf(f).gsz
    \/ s.source \in LiveSources /\ s.gsz = NumT(up.fund[f].etf.price)
    \/ s.source = "official_daily_em" /\ s.gsz = NumT(up.fund[f].daily.nav)

\* C32: when neither the history nor the feed supplies a positive confirmed
\* NAV for a fund, no returned snapshot of the fund carries an estimated
\* value computed from a placeholder NAV: it carries no holdings estimate,
\* and a positive estimated value is one a provider supplied.
C32_NoPlaceholderNav ==
    \A i \in DOMAIN out.list :
        LET s == out.list[i]
            f == out.list[i].fundcode
        IN  NoConfirmedNav(f) =>
                /\ s.source \notin HoldingsSources
                /\ safe_float(s.gsz) > 0 => SuppliedEstimate(s, f)

(***************************************************************************)
(* The two servers while the history provider fails and recovers: the      *)
(* answer of the provider for the first fund changes between requests, an  *)
(* empty series being a failed fetch.  Requests are served at the instants *)
(* of HoldInstants.  req also records the funds whose history the request  *)
(* asked the provider for (fetched), and the (fund, day) pairs for which a *)
(* fetch had failed before the request (prior) and has failed by now       *)
(* (failed).                                                               *)
(***************************************************************************)
HistAnswers == {<< >>, << [date |-> 3, nav |-> 10000], [date |-> 4, nav |-> 10200] >>}

RetryInit ==
    /\ app \in {"main", "backend"}
    /\ clk = 1
    /\ up \in {World(p1, Profile2, AllQuoted) : p1 \in HoldProfiles}
    /\ cache = Empty
    /\ lru = Empty
    /\ holdings = Empty
    /\ req = [op |-> "none", codes |-> << >>, at |-> 1, missing |-> << >>, calc |-> << >>,
              fetched |-> {}, prior |-> {}, failed |-> {}]
    /\ out = [raised |-> FALSE, list |-> << >>]

\* time passes
RetryTick ==
    /\ clk < Len(HoldInstants)
    /\ clk' = clk + 1
    /\ UNCHANGED <<app, up, cache, lru, holdings, req, out>>

\* the history provider starts or stops answering for the first fund
ProviderTurns(h) ==
    /\ h # up.fund["F1"].hist
    /\ up' = [up EXCEPT !.fund["F1"].hist = h]
    /\ UNCHANGED <<app, clk, cache, lru, holdings, req, out>>

\* the (fund, day) pairs of the fetches that came back empty
FailedFetches(fs, day) == {<<f, day>> : f \in {g \in fs : up.fund[g].hist = << >>}}

\* src/main.py GET /api/estimate/{code}: _get_fund_history_akshare(code)
RetrySingle(code) ==
    /\ app = "main"
    /\ \E r \in {_process_single_fund_estimate(code, HoldNow(clk), holdings, up)} :
        /\ req' = [op |-> "single", codes |-> <<code>>, at |-> clk, missing |-> <<code>>,
                   calc |-> IF r.calc THEN <<code>> ELSE << >>,
                   fetched |-> {code}, prior |-> req.failed,
                   failed |-> req.failed \cup FailedFetches({code}, DayOf(HoldNow(clk)))]
        /\ out' = [raised |-> r.raised, list |-> IF r.raised THEN << >> ELSE <<r.data>>]
        /\ holdings' = r.hc
        /\ UNCHANGED <<app, clk, up, cache, lru>>

\* src/main.py POST /api/estimate/batch: _get_fund_history_akshare for every code
RetryBatchMain(codes) ==
    /\ app = "main"
    /\ \E r \in {get_batch_estimate(codes, HoldNow(clk), holdings, up)} :
        /\ req' = [op |-> "batch", codes |-> codes, at |-> clk, missing |-> codes,
                   calc |-> r.calc,
                   fetched |-> Range(codes), prior |-> req.failed,
                   failed |-> req.failed \cup FailedFetches(Range(codes), DayOf(HoldNow(clk)))]
        /\ out' = [raised |-> r.raised, list |-> r.list]
        /\ holdings' = r.hc
        /\ UNCHANGED <<app, clk, up, cache, lru>>

\* the funds for which fetch_fund_history_sync_cached runs its body: the
\* missing codes whose (code, day_str) lru_cache does not hold
HistoryFetched(memo, missing, day) == {f \in Range(missing) : <<f, day>> \notin DOMAIN memo}

\* src/backend/main.py POST /api/estimate/batch
RetryBatchBackend(codes) ==
    /\ app = "backend"
    /\ \E r \in {batch_estimate(codes, HoldNow(clk), cache, lru, up)} :
        /\ req' = [op |-> "batch", codes |-> codes, at |-> clk, missing |-> r.missing,
                   calc |-> r.calc,
                   fetched |-> HistoryFetched(lru, r.missing, DayOf(HoldNow(clk))),
                   prior |-> req.failed,
                   failed |-> req.failed \cup
                       FailedFetches(HistoryFetched(lru, r.missing, DayOf(HoldNow(clk))),
                                     DayOf(HoldNow(clk)))]
        /\ out' = [raised |-> FALSE, list |-> r.list]
        /\ cache' = r.cache
        /\ lru' = r.memo
        /\ UNCHANGED <<app, clk, up, holdings>>

RetryNext ==
    \/ RetryTick
    \/ \E h \in HistAnswers : ProviderTurns(h)
    \/ \E code \in Funds : RetrySingle(code)
    \/ \E codes \in BatchLists : RetryBatchMain(codes)
    \/ \E codes \in BatchLists : RetryBatchBackend(codes)

RetrySpec == RetryInit /\ [][RetryNext]_vars

\* C33: a failed history fetch is transient: a request that resolves a fund
\* whose history fetch failed earlier the same day asks the history provider
\* for that fund again.
C33_FailedHistoryRetried ==
    \A f \in Range(req.missing) :
        <<f, DayOf(HoldNow(req.at))>> \in req.prior => f \in req.fetched

\* what the batch estimate of src/main.py returns for the ids of the last request
AsBatch == get_batch_estimate(req.codes, At, holdings, up)

\* C34: in src/main.py the single-fund estimate returns what the batch
\* estimate returns for the one-element list of the same fund: both return a
\* snapshot or neither does, with the same estimated value and the same
\* change percent.
C34_SingleEqualsBatch ==
    (app = "main" /\ req.op = "single") =>
        /\ AsBatch.raised = out.raised
        /\ ~out.raised =>
              /\ AsBatch.list[1].gsz = out.list[1].gsz
              /\ AsBatch.list[1].gszzl = out.list[1].gszzl

(***************************************************************************)
(* _get_stock_realtime_quotes of src/main.py when the request of one batch *)
(* fails: requests.get raises or times out, resp.json() raises, or the     *)
(* payload breaks off after its first row.  The try block encloses one     *)
(* batch: the except clause logs and the loop goes on to the next batch.   *)
(* req is the call (codes, order of the set, the failing batch and how it  *)
(* fails; bad = 0 is no failure), out the requests sent, the merged quotes *)
(* and whether the function raised.                                        *)
(***************************************************************************)
FailKinds == {"raise", "cut"}

FailCalls ==
    {[op |-> "call", codes |-> CodeList(n, 0), order |-> r, bad |-> b, kind |-> k] :
        n \in {m \in 0..MaxIds : m % BATCH_SIZE \in {0, 1, 29}}, r \in 0..1,
        b \in 0..((MaxIds + BATCH_SIZE - 1) \div BATCH_SIZE), k \in FailKinds}

\* the rows handled only as far as the failing batch: what a try block around
\* the whole loop would store
stored_rows_abort(bs, bad, kind) ==
    [k \in DOMAIN bs |-> IF bad = 0 \/ k < bad THEN bs[k]
                         ELSE IF k = bad /\ kind = "cut" THEN SubSeq(bs[k], 1, 1)
                         ELSE << >>]

\* the codes whose rows the loop handles, batch by batch: all of a batch that
\* is answered, none of a batch whose request raises, the first of a batch
\* whose payload breaks off
stored_rows(bs, bad, kind) ==
    [k \in DOMAIN bs |-> IF k # bad THEN bs[k]
                         ELSE IF kind = "cut" THEN SubSeq(bs[k], 1, 1)
                         ELSE << >>]

FailInit ==
    /\ app = "main"
    /\ clk = 1
    /\ up \in {[quote |-> feed] : feed \in QuoteFeeds}
    /\ cache = Empty
    /\ lru = Empty
    /\ holdings = Empty
    /\ req \in FailCalls
    /\ out = [requests |-> << >>, quotes |-> Empty, raised |-> FALSE]

\* _get_stock_realtime_quotes(stock_codes) with a failing batch
GetQuotesFailing ==
    /\ req.op = "call"
    /\ req' = [req EXCEPT !.op = "quotes"]
    /\ \E bs \in {IF req.codes = << >> THEN << >>
                  ELSE Batches(unique_codes(req.codes, req.order))} :
        out' = [requests |-> bs,
                quotes |-> MergedQuotes(stored_rows(bs, req.bad, req.kind), up.quote),
                raised |-> FALSE]
    /\ UNCHANGED <<app, clk, up, cache, lru, holdings>>

FailNext == GetQuotesFailing

FailSpec == FailInit /\ [][FailNext]_vars

\* C35: a failed request of one batch affects that batch only: every row the
\* provider holds for a code of any other batch, earlier or later, is in the
\* merged map with its change, and the function returns the map.
C35_FailedChunkIsolated ==
    req.op = "quotes" =>
        /\ ~out.raised
        /\ \A k \in DOMAIN out.requests :
            k # req.bad =>
                \A j \in DOMAIN out.requests[k] :
                    up.quote[out.requests[k][j]].st # "absent" =>
                        /\ out.requests[k][j] \in DOMAIN out.quotes
                        /\ out.quotes[out.requests[k][j]] = ChangeOf(up.quote[out.requests[k][j]])

\* the second of three batches has failed: a code of it has no quote, while
\* codes of the first and of the third batch have theirs
C35_Witness ==
    /\ req.op = "quotes"
    /\ Len(out.requests) >= 3
    /\ req.bad = 2
    /\ req.kind = "raise"
    /\ \E j \in DOMAIN out.requests[2] :
        /\ up.quote[out.requests[2][j]].st # "absent"
        /\ out.requests[2][j] \notin DOMAIN out.quotes
    /\ \E j \in DOMAIN out.requests[1] : out.requests[1][j] \in DOMAIN out.quotes
    /\ \E j \in DOMAIN out.requests[3] : out.requests[3][j] \in DOMAIN out.quotes

\* the entries of every key outside ks are the same in both stores
SameExcept(c, d, ks) ==
    /\ DOMAIN c \ ks = DOMAIN d \ ks
    /\ \A k \in DOMAIN c \ ks : c[k] = d[k]

\* the keys of a list that a get with this ttl answers
Answered(c, keys, ttl, t) == {k \in Range(keys) : ValidFor(c, k, ttl, t)}

\* C36: the cache operations of src/backend/main.py touch only the key they
\* name: a set leaves the entry of every other key as it was and stores the
\* value with the time of the call, a get of a valid entry (or of no entry)
\* leaves the store as it was, a get of an expired entry removes that entry
\* only, and mget returns exactly the keys of its list that get answers,
\* with their values, removing the expired entries of its list only.  A
\* step that leaves the clock alone is the call that req' and out' record.
C36_OnlyNamedKey ==
    [][(app = "backend" /\ clk' = clk) =>
          /\ req'.op = "set" =>
                /\ SameExcept(cache, cache', {req'.key})
                /\ req'.key \in DOMAIN cache'
                /\ cache'[req'.key] = [data |-> req'.data, time |-> clk]
          /\ req'.op = "get" =>
                IF req'.key \in DOMAIN cache /\ ~ValidFor(cache, req'.key, req'.ttl, clk)
                THEN SameExcept(cache, cache', {req'.key}) /\ req'.key \notin DOMAIN cache'
                ELSE cache' = cache
          /\ req'.op = "mget" =>
                /\ DOMAIN out'.result = Answered(cache, out'.keys, req'.ttl, clk)
                /\ \A k \in DOMAIN out'.result : out'.result[k] = cache[k].data
                /\ SameExcept(cache, cache',
                              Range(out'.keys) \ Answered(cache, out'.keys, req'.ttl, clk))
                /\ DOMAIN cache' \cap Range(out'.keys) = Answered(cache, out'.keys, req'.ttl, clk)
      ]_vars

\* an mget of both keys has answered one and removed the expired entry of
\* the other
C36_Witness ==
    /\ app = "backend"
    /\ req.op = "mget"
    /\ DOMAIN req.sets = Keys
    /\ Cardinality(DOMAIN out.result) = 1
    /\ DOMAIN cache = DOMAIN out.result
    /\ req.expired = Keys \ DOMAIN out.result

====
